---- MODULE Spec2Model ----
(***************************************************************************)
(* A model of stty.py (src/.venv/Lib/site-packages/stty.py): the control-  *)
(* character codec, the attribute catalog, the Stty object with its raw    *)
(* termios/winsize buffers and its cached attributes, and save/load.       *)
(*                                                                         *)
(* Python values are records [t |-> type name, v |-> payload], the payload *)
(* always being a sequence of integers: a bool is <<0>> or <<1>>, an int   *)
(* is <<n>>, a str is the sequence of its code points, a bytes object is   *)
(* the sequence of its bytes, None is <<>>.                                *)
(*                                                                         *)
(* The platform is the one the repository's tests run on (Linux, CPython   *)
(* 3.11): termios has no _POSIX_VDISABLE, so line 41 sets it to 0; window  *)
(* size calls exist; VMIN/VTIME have slots of their own.  The catalog is   *)
(* cut down to the attributes the combination modes use plus one or two of *)
(* every category; the masks are the platform's.                           *)
(***************************************************************************)
EXTENDS Integers, Sequences, FiniteSets, TLC

VARIABLES
    obj,              \* obj[i]: the Stty instance i
    default_winsize,  \* the module-level list _default_winsize
    fdterm,           \* kernel state of the terminal behind the descriptor
    tty,              \* kernel state of the controlling terminal /dev/tty
    file,             \* the JSON document at the path used by save/load
    last,             \* the last call made and how it ended
    nops,             \* calls made so far
    pristine,         \* the instances untouched since from_descriptor
    cin,              \* codec: the input under conversion
    cout,             \* codec: the result of the conversion
    cback,            \* codec: the result converted back
    cloned,           \* instance 2 is a deep copy of 1, only assigned to since
    os,               \* the processes, their descriptors and the pty
    kept              \* what the program keeps of an earlier get()

vars == <<obj, default_winsize, fdterm, tty, file, last, nops, pristine,
          cin, cout, cback, cloned, os, kept>>

----------------------------------------------------------------------------
(* Bounds *)

MaxOps == 2
MaxSets == 1
MaxChar == 260
MaxPtyOps == 2
MaxChanges == 2

----------------------------------------------------------------------------
(* Python values *)

PyBool(b) == [t |-> "bool", v |-> <<IF b THEN 1 ELSE 0>>]
PyInt(n) == [t |-> "int", v |-> <<n>>]
PyStr(s) == [t |-> "str", v |-> s]
PyBytes(s) == [t |-> "bytes", v |-> s]
PyNone == [t |-> "NoneType", v |-> <<>>]
\* an exception leaving a function instead of a value
PyRaise(e) == [t |-> e, v |-> <<>>]

Exceptions == {"TypeError", "ValueError", "AttributeError", "KeyError"}
Raised(x) == x.t \in Exceptions

\* isinstance(value, int) is true of a bool: bool is a subclass of int
IsInt(x) == x.t \in {"int", "bool"}
IsBool(x) == x.t = "bool"
IsStr(x) == x.t = "str"
IsBytes(x) == x.t = "bytes"
IntOf(x) == x.v[1]
\* Python truthiness, as used by "if value:" and "if d.get(...)"
Truthy(x) == IF IsInt(x) THEN IntOf(x) # 0 ELSE Len(x.v) > 0

\* the strings the module spells out
str_undef == <<117, 110, 100, 101, 102>>
str_caret_minus == <<94, 45>>
str_caret_query == <<94, 63>>
str_cs5 == <<99, 115, 53>>
str_cs6 == <<99, 115, 54>>
str_cs7 == <<99, 115, 55>>
str_cs8 == <<99, 115, 56>>
str_nl0 == <<110, 108, 48>>
str_nl1 == <<110, 108, 49>>

----------------------------------------------------------------------------
(* Bit operations on Python ints (unbounded, nonnegative here) *)

RECURSIVE BitAnd(_, _)
BitAnd(a, b) ==
    IF a = 0 \/ b = 0 THEN 0
    ELSE (a % 2) * (b % 2) + 2 * BitAnd(a \div 2, b \div 2)

\* a | b
BitOr(a, b) == a + b - BitAnd(a, b)
\* a & ~b
BitClear(a, b) == a - BitAnd(a, b)

----------------------------------------------------------------------------
(* AttributeCodec: cc_str_to_bytes / cc_bytes_to_str *)

POSIX_VDISABLE == 0

\* str.isalpha() for one character, code points below 0x250
IsAlpha(c) ==
    \/ c \in 65..90
    \/ c \in 97..122
    \/ c \in {170, 181, 186}
    \/ c \in 192..214
    \/ c \in 216..246
    \/ c \in 248..591

\* str.islower() / str.upper() for the characters cc_bytes_to_str builds
IsLower(c) == c \in 97..122
Upper(c) == IF IsLower(c) THEN c - 32 ELSE c

\* bytes([n]): ValueError outside range(0, 256)
BytesOf1(n) == IF n \in 0..255 THEN PyBytes(<<n>>) ELSE PyRaise("ValueError")

\* cc_str_to_bytes without the "& 0x1f"
cc_str_to_bytes_nomask(s) ==
    IF Len(s) = 1 THEN BytesOf1(s[1])
    ELSE IF s \in {str_caret_minus, str_undef} THEN BytesOf1(POSIX_VDISABLE)
    ELSE IF Len(s) = 2 /\ s[1] = 94 /\ s[2] = 63 THEN PyBytes(<<127>>)
    ELSE IF Len(s) = 2 /\ s[1] = 94
            /\ (IsAlpha(s[2]) \/ s[2] \in {91, 92, 93, 94, 95})
        THEN BytesOf1(s[2])
    ELSE PyNone

\* cc_str_to_bytes taking a single character only when it is printable
cc_str_to_bytes_printable(s) ==
    IF Len(s) = 1 /\ s[1] \in 32..126 THEN BytesOf1(s[1])
    ELSE IF s \in {str_caret_minus, str_undef} THEN BytesOf1(POSIX_VDISABLE)
    ELSE IF Len(s) = 2 /\ s[1] = 94 /\ s[2] = 63 THEN PyBytes(<<127>>)
    ELSE IF Len(s) = 2 /\ s[1] = 94
            /\ (IsAlpha(s[2]) \/ s[2] \in {91, 92, 93, 94, 95})
        THEN BytesOf1(BitAnd(s[2], 31))
    ELSE PyNone

\* cc_str_to_bytes masking "^X" with 0x3f
cc_str_to_bytes_widemask(s) ==
    IF Len(s) = 1 THEN BytesOf1(s[1])
    ELSE IF s \in {str_caret_minus, str_undef} THEN BytesOf1(POSIX_VDISABLE)
    ELSE IF Len(s) = 2 /\ s[1] = 94 /\ s[2] = 63 THEN PyBytes(<<127>>)
    ELSE IF Len(s) = 2 /\ s[1] = 94
            /\ (IsAlpha(s[2]) \/ s[2] \in {91, 92, 93, 94, 95})
        THEN BytesOf1(BitAnd(s[2], 63))
    ELSE PyNone

cc_str_to_bytes(s) ==
    IF Len(s) = 1 THEN BytesOf1(s[1])
    ELSE IF s \in {str_caret_minus, str_undef} THEN BytesOf1(POSIX_VDISABLE)
    ELSE IF Len(s) = 2 /\ s[1] = 94 /\ s[2] = 63 THEN PyBytes(<<127>>)
    ELSE IF Len(s) = 2 /\ s[1] = 94
            /\ (IsAlpha(s[2]) \/ s[2] \in {91, 92, 93, 94, 95})
        THEN BytesOf1(BitAnd(s[2], 31))
    ELSE PyNone

\* cc_bytes_to_str testing the printable range before the sentinel and
\* taking 0x7f for printable
cc_bytes_to_str_printable_first(b) ==
    IF ~IsBytes(b) THEN PyRaise("TypeError")
    ELSE IF Len(b.v) # 1 THEN PyNone
    ELSE LET byte == b.v[1] IN
        IF byte >= 32 /\ byte <= 127 THEN PyStr(<<byte>>)
        ELSE IF byte = POSIX_VDISABLE THEN PyStr(str_undef)
        ELSE IF byte >= 1 /\ byte <= 31 THEN PyStr(<<94, Upper(byte + 64)>>)
        ELSE PyNone

\* b is the value handed over: a bytes object, or None (len(None) raises)
cc_bytes_to_str(b) ==
    IF ~IsBytes(b) THEN PyRaise("TypeError")
    ELSE IF Len(b.v) # 1 THEN PyNone
    ELSE LET byte == b.v[1] IN
        IF byte = POSIX_VDISABLE THEN PyStr(str_undef)
        ELSE IF byte >= 32 /\ byte <= 126 THEN PyStr(<<byte>>)
        ELSE IF byte = 127 THEN PyStr(str_caret_query)
        ELSE IF byte >= 1 /\ byte <= 31 THEN PyStr(<<94, Upper(byte + 64)>>)
        ELSE PyNone

----------------------------------------------------------------------------
(* AttributeCatalog: the tables built at import time *)

\* name -> (flag word, mask); the flag word is named, not numbered
_bool_d ==
    [icrnl  |-> [flag |-> "iflag", mask |-> 256],
     inlcr  |-> [flag |-> "iflag", mask |-> 64],
     igncr  |-> [flag |-> "iflag", mask |-> 128],
     opost  |-> [flag |-> "oflag", mask |-> 1],
     parenb |-> [flag |-> "cflag", mask |-> 256],
     parodd |-> [flag |-> "cflag", mask |-> 512],
     cibaud |-> [flag |-> "cflag", mask |-> 269418496],
     icanon |-> [flag |-> "lflag", mask |-> 2],
     echo   |-> [flag |-> "lflag", mask |-> 8]]

\* _available_dict["boolean"]["iflag"] and ["lflag"], in one iteration order
bool_iflag == <<"icrnl", "inlcr", "igncr">>
bool_lflag == <<"icanon", "echo">>

\* name -> (flag word, field mask, raw value -> name, name -> raw value)
_symbol_d ==
    [csize |-> [flag |-> "cflag", mask |-> 48,
                avail |-> (0 :> str_cs5 @@ 16 :> str_cs6
                           @@ 32 :> str_cs7 @@ 48 :> str_cs8),
                avail_inverse |-> (str_cs5 :> 0 @@ str_cs6 :> 16
                                   @@ str_cs7 :> 32 @@ str_cs8 :> 48)],
     nldly |-> [flag |-> "oflag", mask |-> 256,
                avail |-> (0 :> str_nl0 @@ 256 :> str_nl1),
                avail_inverse |-> (str_nl0 :> 0 @@ str_nl1 :> 256)]]

\* the module attributes stty.cs7, stty.cs8 (line 228)
cs7 == PyInt(_symbol_d.csize.avail_inverse[str_cs7])
cs8 == PyInt(_symbol_d.csize.avail_inverse[str_cs8])

\* rate -> termios.B<rate>, and back
_baud_d == (0 :> 0 @@ 50 :> 1 @@ 9600 :> 13 @@ 38400 :> 15)
_baud_d_inverse == [c \in {_baud_d[n] : n \in DOMAIN _baud_d} |->
                       CHOOSE n \in DOMAIN _baud_d : _baud_d[n] = c]

\* name -> slot of the control character list
_cc_d == [eof |-> 4, erase |-> 2, kill |-> 3]
_noncanon_d == [min |-> 6, time |-> 5]
_speed_d == [ispeed |-> "ispeed", ospeed |-> "ospeed"]
\* name -> place in the winsize list (counted from 1 here)
_winsz_d == [rows |-> 1, cols |-> 2]

CcSlots == {_cc_d[n] : n \in DOMAIN _cc_d}
               \cup {_noncanon_d[n] : n \in DOMAIN _noncanon_d}

_available ==
    DOMAIN _bool_d \cup DOMAIN _symbol_d \cup DOMAIN _speed_d
        \cup DOMAIN _cc_d \cup DOMAIN _noncanon_d \cup DOMAIN _winsz_d

\* termios.CERASE, termios.CKILL as ek() passes them: bytes([...])
ek_erase == PyBytes(<<127>>)
ek_kill == PyBytes(<<21>>)

----------------------------------------------------------------------------
(* The OS side: a terminal's kernel state, and what tcgetattr returns *)

\* termios.tcgetattr: the control characters come back as bytes objects of
\* length 1, except VMIN and VTIME, which come back as ints when ICANON is
\* off (the behaviour the comment in load describes)
tcgetattr(term) ==
    [iflag |-> term.iflag, oflag |-> term.oflag,
     cflag |-> term.cflag, lflag |-> term.lflag,
     ispeed |-> term.ispeed, ospeed |-> term.ospeed,
     cc |-> [s \in CcSlots |->
                IF BitAnd(term.lflag, _bool_d.icanon.mask) = 0
                   /\ s \in {term.vmin, _noncanon_d.time}
                THEN PyInt(term.cc[s])
                ELSE PyBytes(<<term.cc[s]>>)]]

\* list(termios.tcgetwinsize(fd))
tcgetwinsize(term) == <<term.rows, term.cols>>

----------------------------------------------------------------------------
(* TerminalState: the Stty object *)

NoAttrs == [n \in {} |-> PyNone]
NoTermios ==
    [iflag |-> 0, oflag |-> 0, cflag |-> 0, lflag |-> 0,
     ispeed |-> 0, ospeed |-> 0, cc |-> [s \in CcSlots |-> PyNone]]

\* an instance before __init__ has given it anything.  ws says what
\* self._winsize refers to: nothing yet, a list of its own, or the module's
\* _default_winsize list
\* vmin is termios.VMIN where the instance lives
NewObj ==
    [state |-> "new", termios |-> NoTermios, ws |-> "none",
     winsize |-> <<0, 0>>, attrs |-> NoAttrs, vmin |-> _noncanon_d.min]

\* _noncanon_d[name] where instance o lives
NoncanonSlot(o, name) ==
    IF name = "min" THEN o.vmin ELSE _noncanon_d[name]

\* a call runs on w = [o |-> the instance, dw |-> _default_winsize] and
\* returns the same with res: "ok" or the exception raised
Ok(w) == [o |-> w.o, dw |-> w.dw, res |-> "ok"]
Fail(w, e) == [o |-> w.o, dw |-> w.dw, res |-> e]

\* super().__setattr__(name, value)
Store(o, name, value) == [o EXCEPT !.attrs = (name :> value) @@ o.attrs]

\* the names of the two raw buffers, instance attributes themselves
RawNames == {"_termios", "_winsize"}

\* getattr(self, name): a stored attribute, a raw buffer (a list) once the
\* instance has them, AttributeError otherwise
Get(o, name) ==
    IF name \in DOMAIN o.attrs THEN o.attrs[name]
    ELSE IF name \in RawNames /\ o.state = "live"
        THEN [t |-> "list", v |-> <<>>]
    ELSE PyRaise("AttributeError")

\* self._winsize as a list of two ints
WinsizeOf(w) == IF w.o.ws = "default" THEN w.dw ELSE w.o.winsize

\* SetBool testing isinstance(value, int) instead of bool
SetBoolAnyInt(w, name, value) ==
    IF ~IsInt(value) THEN Fail(w, "TypeError")
    ELSE LET x == _bool_d[name]
             word == w.o.termios[x.flag]
             new == IF Truthy(value) THEN BitOr(word, x.mask)
                    ELSE BitClear(word, x.mask)
         IN Ok([w EXCEPT !.o =
                   Store([w.o EXCEPT !.termios[x.flag] = new], name, value)])

\* the boolean branch that never clears a bit
SetBoolSetsOnly(w, name, value) ==
    IF ~IsBool(value) THEN Fail(w, "TypeError")
    ELSE LET x == _bool_d[name]
             word == w.o.termios[x.flag]
             new == IF Truthy(value) THEN BitOr(word, x.mask) ELSE word
         IN Ok([w EXCEPT !.o =
                   Store([w.o EXCEPT !.termios[x.flag] = new], name, value)])

SetBool(w, name, value) ==
    IF ~IsBool(value) THEN Fail(w, "TypeError")
    ELSE LET x == _bool_d[name]
             word == w.o.termios[x.flag]
             new == IF Truthy(value) THEN BitOr(word, x.mask)
                    ELSE BitClear(word, x.mask)
         IN Ok([w EXCEPT !.o =
                   Store([w.o EXCEPT !.termios[x.flag] = new], name, value)])

\* SetSymbol looking a string up among the names of every mask
SetSymbolAnyMask(w, name, value) ==
    IF ~(IsInt(value) \/ IsStr(value)) THEN Fail(w, "TypeError")
    ELSE LET x == _symbol_d[name]
             owners == {n \in DOMAIN _symbol_d :
                           value.v \in DOMAIN _symbol_d[n].avail_inverse}
         IN
        IF IsInt(value) /\ IntOf(value) \notin DOMAIN x.avail
            THEN Fail(w, "ValueError")
        ELSE IF IsStr(value) /\ owners = {} THEN Fail(w, "ValueError")
        ELSE LET value_as_int ==
                     IF IsInt(value) THEN IntOf(value)
                     ELSE _symbol_d[CHOOSE n \in owners : TRUE]
                              .avail_inverse[value.v]
                 value_as_str == IF IsInt(value)
                                 THEN PyStr(x.avail[IntOf(value)]) ELSE value
                 word == w.o.termios[x.flag]
                 new == BitOr(BitClear(word, x.mask), value_as_int)
             IN Ok([w EXCEPT !.o =
                       Store([w.o EXCEPT !.termios[x.flag] = new],
                             name, value_as_str)])

\* the symbol branch that keeps the value as it was given
SetSymbolKeepsValue(w, name, value) ==
    IF ~(IsInt(value) \/ IsStr(value)) THEN Fail(w, "TypeError")
    ELSE LET x == _symbol_d[name] IN
        IF IsInt(value) /\ IntOf(value) \notin DOMAIN x.avail
            THEN Fail(w, "ValueError")
        ELSE IF IsStr(value) /\ value.v \notin DOMAIN x.avail_inverse
            THEN Fail(w, "ValueError")
        ELSE LET value_as_int == IF IsInt(value) THEN IntOf(value)
                                 ELSE x.avail_inverse[value.v]
                 word == w.o.termios[x.flag]
                 new == BitOr(BitClear(word, x.mask), value_as_int)
             IN Ok([w EXCEPT !.o =
                       Store([w.o EXCEPT !.termios[x.flag] = new],
                             name, value)])

SetSymbol(w, name, value) ==
    IF ~(IsInt(value) \/ IsStr(value)) THEN Fail(w, "TypeError")
    ELSE LET x == _symbol_d[name] IN
        IF IsInt(value) /\ IntOf(value) \notin DOMAIN x.avail
            THEN Fail(w, "ValueError")
        ELSE IF IsStr(value) /\ value.v \notin DOMAIN x.avail_inverse
            THEN Fail(w, "ValueError")
        ELSE LET value_as_int == IF IsInt(value) THEN IntOf(value)
                                 ELSE x.avail_inverse[value.v]
                 value_as_str == IF IsInt(value)
                                 THEN PyStr(x.avail[IntOf(value)]) ELSE value
                 word == w.o.termios[x.flag]
                 new == BitOr(BitClear(word, x.mask), value_as_int)
             IN Ok([w EXCEPT !.o =
                       Store([w.o EXCEPT !.termios[x.flag] = new],
                             name, value_as_str)])

SetSpeed(w, name, value) ==
    IF ~IsInt(value) THEN Fail(w, "TypeError")
    ELSE IF IntOf(value) \notin DOMAIN _baud_d THEN Fail(w, "ValueError")
    ELSE Ok([w EXCEPT !.o =
                Store([w.o EXCEPT !.termios[_speed_d[name]] =
                                       _baud_d[IntOf(value)]],
                      name, value)])

\* SetCc writing the slot before it looks at the decoded string
SetCcStoreFirst(w, name, value) ==
    IF ~(IsStr(value) \/ IsBytes(value)) THEN Fail(w, "TypeError")
    ELSE LET value_as_bytes == IF IsStr(value) THEN cc_str_to_bytes(value.v)
                               ELSE value
         IN IF Raised(value_as_bytes) THEN Fail(w, value_as_bytes.t)
            ELSE LET value_as_str == cc_bytes_to_str(value_as_bytes)
                     stored == [w EXCEPT !.o.termios.cc[_cc_d[name]] =
                                             value_as_bytes]
                 IN
                IF Raised(value_as_str) THEN Fail(stored, value_as_str.t)
                ELSE IF value_as_bytes = PyNone \/ value_as_str = PyNone
                    THEN Fail(stored, "ValueError")
                ELSE Ok([stored EXCEPT !.o =
                            Store(stored.o, name, value_as_str)])

SetCc(w, name, value) ==
    IF ~(IsStr(value) \/ IsBytes(value)) THEN Fail(w, "TypeError")
    ELSE LET value_as_bytes == IF IsStr(value) THEN cc_str_to_bytes(value.v)
                               ELSE value
         IN IF Raised(value_as_bytes) THEN Fail(w, value_as_bytes.t)
            ELSE LET value_as_str == cc_bytes_to_str(value_as_bytes) IN
                IF Raised(value_as_str) THEN Fail(w, value_as_str.t)
                ELSE IF value_as_bytes = PyNone \/ value_as_str = PyNone
                    THEN Fail(w, "ValueError")
                ELSE Ok([w EXCEPT !.o =
                            Store([w.o EXCEPT !.termios.cc[_cc_d[name]] =
                                                   value_as_bytes],
                                  name, value_as_str)])

SetNoncanon(w, name, value) ==
    IF ~(IsInt(value) \/ IsBytes(value)) THEN Fail(w, "TypeError")
    ELSE IF IsInt(value) /\ IntOf(value) < 0 THEN Fail(w, "ValueError")
    ELSE IF IsBytes(value) /\ Len(value.v) # 1 THEN Fail(w, "ValueError")
    ELSE LET value_as_int == IF IsInt(value) THEN value
                             ELSE PyInt(value.v[1])
         IN Ok([w EXCEPT !.o =
                   Store([w.o EXCEPT
                             !.termios.cc[NoncanonSlot(w.o, name)] = value],
                         name, value_as_int)])

SetWinsz(w, name, value) ==
    IF ~IsInt(value) THEN Fail(w, "TypeError")
    ELSE IF IntOf(value) < 0 THEN Fail(w, "ValueError")
    ELSE LET k == _winsz_d[name] IN
        IF w.o.ws = "default"
        THEN Ok([w EXCEPT !.dw[k] = IntOf(value),
                          !.o = Store(w.o, name, value)])
        ELSE Ok([w EXCEPT !.o =
                    Store([w.o EXCEPT !.winsize[k] = IntOf(value)],
                          name, value)])

\* the fall-through handing the name to object.__setattr__
SetUnsupportedStores(w, name, value) == Ok([w EXCEPT !.o = Store(w.o, name, value)])

\* a name no branch of __setattr__ takes
SetUnsupported(w, name, value) == Fail(w, "AttributeError")

\* Stty.__setattr__
Setattr(w, name, value) ==
    IF name \in RawNames THEN Fail(w, "AttributeError")
    ELSE IF name \in DOMAIN _bool_d THEN SetBool(w, name, value)
    ELSE IF name \in DOMAIN _symbol_d THEN SetSymbol(w, name, value)
    ELSE IF name \in DOMAIN _speed_d THEN SetSpeed(w, name, value)
    ELSE IF name \in DOMAIN _cc_d THEN SetCc(w, name, value)
    ELSE IF name \in DOMAIN _noncanon_d THEN SetNoncanon(w, name, value)
    ELSE IF name \in DOMAIN _winsz_d THEN SetWinsz(w, name, value)
    ELSE SetUnsupported(w, name, value)

\* the loop going on after a pair has raised, and raising at its end
RECURSIVE SetEachKeepGoing(_, _)
SetEachKeepGoing(w, pairs) ==
    IF pairs = <<>> THEN Ok(w)
    ELSE LET r == Setattr(w, pairs[1][1], pairs[1][2])
             rest == SetEachKeepGoing([o |-> r.o, dw |-> r.dw], Tail(pairs))
         IN IF r.res # "ok" THEN Fail(rest, r.res) ELSE rest

\* a run of __setattr__ calls, one per pair, stopping at the first that
\* raises (the for loops of set, fromfd and raw)
RECURSIVE SetEach(_, _)
SetEach(w, pairs) ==
    IF pairs = <<>> THEN Ok(w)
    ELSE LET r == Setattr(w, pairs[1][1], pairs[1][2]) IN
        IF r.res # "ok" THEN r
        ELSE SetEach([o |-> r.o, dw |-> r.dw], Tail(pairs))

Keys(pairs) == {pairs[k][1] : k \in 1..Len(pairs)}

\* set() without the check of the keys
SetManyNoKeyCheck(w, opts) == SetEach(w, opts)

\* Stty.set(**opts); opts is the keyword dictionary, in the order given
SetMany(w, opts) ==
    IF Keys(opts) \ _available # {} THEN Fail(w, "AttributeError")
    ELSE SetEach(w, opts)

----------------------------------------------------------------------------
(* from_descriptor, get, the combination modes *)

\* the value fromfd reads out of the raw buffers for name, at the time it
\* comes to name in its loops; _baud_d_inverse[x] raises KeyError
ReadRaw(w, name) ==
    IF name \in DOMAIN _bool_d
        THEN PyBool(BitAnd(w.o.termios[_bool_d[name].flag],
                           _bool_d[name].mask) # 0)
    ELSE IF name \in DOMAIN _symbol_d
        THEN PyInt(BitAnd(w.o.termios[_symbol_d[name].flag],
                          _symbol_d[name].mask))
    ELSE IF name \in DOMAIN _speed_d
        THEN IF w.o.termios[_speed_d[name]] \in DOMAIN _baud_d_inverse
             THEN PyInt(_baud_d_inverse[w.o.termios[_speed_d[name]]])
             ELSE PyRaise("KeyError")
    ELSE IF name \in DOMAIN _cc_d THEN w.o.termios.cc[_cc_d[name]]
    ELSE IF name \in DOMAIN _noncanon_d
        THEN w.o.termios.cc[NoncanonSlot(w.o, name)]
    ELSE PyInt(WinsizeOf(w)[_winsz_d[name]])

RECURSIVE ReadEach(_, _)
ReadEach(w, names) ==
    IF names = <<>> THEN Ok(w)
    ELSE LET value == ReadRaw(w, names[1]) IN
        IF Raised(value) THEN Fail(w, value.t)
        ELSE LET r == Setattr(w, names[1], value) IN
            IF r.res # "ok" THEN r
            ELSE ReadEach([o |-> r.o, dw |-> r.dw], Tail(names))

\* the order of fromfd's loops: booleans, symbols, speeds, control
\* characters, min/time, window size
NameOrder ==
    <<"icrnl", "inlcr", "igncr", "opost", "parenb", "parodd", "cibaud",
      "icanon", "echo", "csize", "nldly", "ispeed", "ospeed", "eof", "erase", "kill",
      "min", "time", "rows", "cols">>

\* Stty.fromfd(fd) on the terminal term
fromfd(w, term) ==
    ReadEach([w EXCEPT !.o.termios = tcgetattr(term),
                       !.o.ws = "own",
                       !.o.winsize = tcgetwinsize(term),
                       !.o.state = "live"],
             NameOrder)

\* Stty.get(): a dictionary, here the list of its items in the order ord,
\* the iteration order of the set _available
get(o, ord) == [k \in 1..Len(ord) |-> <<ord[k], Get(o, ord[k])>>]

FalseEach(names) == [k \in 1..Len(names) |-> <<names[k], PyBool(FALSE)>>]

\* evenp that leaves parodd alone
evenp_keeps_parodd(w, plus) ==
    IF Truthy(plus)
    THEN SetMany(w, <<<<"parenb", PyBool(TRUE)>>, <<"csize", cs7>>>>)
    ELSE SetMany(w, <<<<"parenb", PyBool(FALSE)>>, <<"csize", cs8>>>>)

evenp(w, plus) ==
    IF Truthy(plus)
    THEN SetMany(w, <<<<"parenb", PyBool(TRUE)>>, <<"csize", cs7>>,
                      <<"parodd", PyBool(FALSE)>>>>)
    ELSE SetMany(w, <<<<"parenb", PyBool(FALSE)>>, <<"csize", cs8>>>>)

oddp(w, plus) ==
    IF Truthy(plus)
    THEN SetMany(w, <<<<"parenb", PyBool(TRUE)>>, <<"csize", cs7>>,
                      <<"parodd", PyBool(TRUE)>>>>)
    ELSE SetMany(w, <<<<"parenb", PyBool(FALSE)>>, <<"csize", cs8>>>>)

\* raw that leaves the local-mode booleans alone
raw_input_only(w) ==
    LET r == SetEach(w, FalseEach(bool_iflag)) IN
    IF r.res # "ok" THEN r
    ELSE SetMany([o |-> r.o, dw |-> r.dw],
                 <<<<"opost", PyBool(FALSE)>>, <<"parenb", PyBool(FALSE)>>,
                   <<"csize", cs8>>, <<"min", PyInt(1)>>,
                   <<"time", PyInt(0)>>>>)

raw(w) ==
    LET r == SetEach(w, FalseEach(bool_iflag) \o FalseEach(bool_lflag)) IN
    IF r.res # "ok" THEN r
    ELSE SetMany([o |-> r.o, dw |-> r.dw],
                 <<<<"opost", PyBool(FALSE)>>, <<"parenb", PyBool(FALSE)>>,
                   <<"csize", cs8>>, <<"min", PyInt(1)>>,
                   <<"time", PyInt(0)>>>>)

nl(w, plus) ==
    IF Truthy(plus) THEN Setattr(w, "icrnl", PyBool(FALSE))
    ELSE SetMany(w, <<<<"icrnl", PyBool(TRUE)>>, <<"inlcr", PyBool(FALSE)>>,
                      <<"igncr", PyBool(FALSE)>>>>)

ek(w) ==
    SetEach(w, <<<<"erase", ek_erase>>, <<"kill", ek_kill>>>>)

----------------------------------------------------------------------------
(* StateStore: save(path) and load(path) *)

\* json.dump of one value: true/false, a number, a string or null; a bytes
\* object is not serializable
JsonDump(x) ==
    IF IsBool(x) THEN [j |-> IF Truthy(x) THEN "true" ELSE "false", v |-> <<>>]
    ELSE IF x.t = "int" THEN [j |-> "number", v |-> x.v]
    ELSE IF IsStr(x) THEN [j |-> "string", v |-> x.v]
    ELSE IF x = PyNone THEN [j |-> "null", v |-> <<>>]
    ELSE [j |-> "TypeError", v |-> <<>>]

\* json.load of one value
JsonLoad(y) ==
    IF y.j = "true" THEN PyBool(TRUE)
    ELSE IF y.j = "false" THEN PyBool(FALSE)
    ELSE IF y.j = "number" THEN PyInt(y.v[1])
    ELSE IF y.j = "string" THEN PyStr(y.v)
    ELSE PyNone

JsonDumpDict(items) ==
    [k \in 1..Len(items) |-> <<items[k][1], JsonDump(items[k][2])>>]
JsonLoadDict(doc) ==
    [k \in 1..Len(doc) |-> <<doc[k][1], JsonLoad(doc[k][2])>>]

\* save(path): the document written
\* a copy that goes on referring to the list the original refers to
copy_keeps_references(w) == w.o

\* copy.deepcopy(self): the copy gets lists of its own, the window size
\* list included whichever list the original refers to
deepcopy(w) ==
    [w.o EXCEPT !.ws = IF @ = "none" THEN "none" ELSE "own",
                !.winsize = WinsizeOf(w)]

save(o, ord) == JsonDumpDict(get(o, ord))

\* d.get(key)
DictGet(d, key) ==
    IF key \in Keys(d)
    THEN d[CHOOSE k \in 1..Len(d) : d[k][1] = key][2]
    ELSE PyNone

\* bytes([x]): x must be an integer in range(0, 256)
BytesOfList1(x) ==
    IF ~IsInt(x) THEN PyRaise("TypeError") ELSE BytesOf1(IntOf(x))

\* hasattr(super(), name): super() looks name up on the classes after Stty,
\* never in the instance's own dictionary, where _termios and _winsize live
HasattrSuper(o, name) == FALSE

\* the dictionary left as it was loaded
BytifyKeepsInts(d) == d

\* the dictionary after "if d.get('icanon')": min and time as bytes([...])
Bytify(d) ==
    [k \in 1..Len(d) |->
        IF d[k][1] \in DOMAIN _noncanon_d
        THEN <<d[k][1], BytesOfList1(d[k][2])>> ELSE d[k]]

\* Stty.load(path), the document at path being doc and the controlling
\* terminal being ttyterm
load(w, ttyterm, doc) ==
    LET o1 == IF HasattrSuper(w.o, "_termios") THEN w.o
              ELSE [w.o EXCEPT !.termios = tcgetattr(ttyterm)]
        o2 == IF HasattrSuper(o1, "_winsize") THEN o1
              ELSE [o1 EXCEPT !.ws = "default"]
        w2 == [o |-> [o2 EXCEPT !.state = "live"], dw |-> w.dw]
        d == JsonLoadDict(doc)
    IN  IF _available \ Keys(d) # {} THEN Fail(w2, "ValueError")
        ELSE IF Truthy(DictGet(d, "icanon"))
        THEN LET bmin == BytesOfList1(DictGet(d, "min"))
                 btime == BytesOfList1(DictGet(d, "time"))
             IN IF Raised(bmin) THEN Fail(w2, bmin.t)
                ELSE IF Raised(btime) THEN Fail(w2, btime.t)
                ELSE SetMany(w2, Bytify(d))
        ELSE SetMany(w2, d)

----------------------------------------------------------------------------
(* The terminals and documents the calls are tried on *)

Inst == {1, 2}

\* a Linux terminal in its default (canonical) state; the flag words carry
\* bits the catalog has no name for (IUTF8, ONLCR, CREAD, ISIG, ...)
BaseTerm ==
    [iflag |-> 16640, oflag |-> 5, cflag |-> 191, lflag |-> 35387,
     ispeed |-> 15, ospeed |-> 15,
     cc |-> (2 :> 127 @@ 3 :> 21 @@ 4 :> 4 @@ 5 :> 0 @@ 6 :> 1),
     rows |-> 24, cols |-> 80, vmin |-> _noncanon_d.min]

\* non-canonical, end-of-file disabled
NoncanonTerm ==
    [BaseTerm EXCEPT !.lflag = 35385, !.cc[4] = 0, !.cc[6] = 0, !.cc[5] = 5]

\* seven bits with parity, erase ^H, 9600 baud, a wide window
ParityTerm ==
    [BaseTerm EXCEPT !.cflag = 431, !.cc[2] = 8, !.ispeed = 13,
                     !.ospeed = 13, !.rows = 40, !.cols = 132]

\* non-canonical, no echo, newline delay, kill set to a printable character
PlainTerm ==
    [BaseTerm EXCEPT !.iflag = 64, !.oflag = 256, !.lflag = 32817,
                     !.cc[3] = 64, !.cc[6] = 2]

\* an input speed in some of the bits of CIBAUD
InputBaudTerm == [BaseTerm EXCEPT !.cflag = 852159]

\* kill set to a byte above 0x7f
EightBitTerm == [BaseTerm EXCEPT !.cc[3] = 128]

FdTerminals ==
    {BaseTerm, NoncanonTerm, ParityTerm, PlainTerm, EightBitTerm,
     InputBaudTerm}
TtyTerminals == {BaseTerm, PlainTerm}

ReverseOrder == [k \in 1..Len(NameOrder) |-> NameOrder[Len(NameOrder) + 1 - k]]
Orders == {NameOrder, ReverseOrder}

\* documents written by hand or by another program
BaseDoc == save(fromfd([o |-> NewObj, dw |-> <<24, 80>>], BaseTerm).o, NameOrder)
DropKey(doc, key) == SelectSeq(doc, LAMBDA item : item[1] # key)
PutKey(doc, key, y) ==
    [k \in 1..Len(doc) |-> IF doc[k][1] = key THEN <<key, y>> ELSE doc[k]]
JsonString(s) == [j |-> "string", v |-> s]
JsonNumber(n) == [j |-> "number", v |-> <<n>>]

\* lacks one attribute
ShortDoc == DropKey(BaseDoc, "echo")
\* complete, with a control-character string that is none ("^1")
BadCcDoc == PutKey(PutKey(BaseDoc, "erase", JsonString(<<94, 49>>)),
                   "opost", [j |-> "false", v |-> <<>>])
\* complete, canonical, with a MIN that does not fit a byte
BigMinDoc == PutKey(BaseDoc, "min", JsonNumber(300))
\* complete and valid, other values than the terminals have
OtherDoc == PutKey(PutKey(PutKey(BaseDoc, "rows", JsonNumber(50)),
                          "icanon", [j |-> "false", v |-> <<>>]),
                   "min", JsonNumber(3))
ExternalDocs == {ShortDoc, BadCcDoc, BigMinDoc, OtherDoc}

----------------------------------------------------------------------------
(* The OS side of tofd, openpty and forkpty.  The kernel is taken by its
   contract: a successful write stores what it is given. *)

Procs == {"parent", "child"}

\* the slave of a pty pair as the kernel creates it
NewPtyTerm ==
    [iflag |-> 1280, oflag |-> 5, cflag |-> 191, lflag |-> 35387,
     ispeed |-> 15, ospeed |-> 15,
     cc |-> (2 :> 127 @@ 3 :> 21 @@ 4 :> 4 @@ 5 :> 0 @@ 6 :> 1),
     rows |-> 0, cols |-> 0, vmin |-> _noncanon_d.min]

\* descriptor 0, and the two descriptors os.openpty() or os.forkpty() makes
STDIN_FILENO == 0
MasterFd == 3
SlaveFd == 4
\* the path of the pty's slave, as os.ttyname and os.ptsname report it
SlavePath == "/dev/pts/0"

\* what a pty call has returned so far: nothing.  via names the call the
\* path came from
NoReturn == [pid |-> -1, m |-> -1, s |-> -1, sname |-> "", via |-> ""]

\* a process: pc is its place in forkpty, fds the descriptors of the pty
\* pair it holds open, stdin and ctty what its descriptor 0 and its
\* controlling terminal are, res and ret how its pty call ended
IdleProc ==
    [alive |-> TRUE, pc |-> "idle", fds |-> {}, stdin |-> "fd0",
     ctty |-> "tty", res |-> "none", ret |-> NoReturn, ran |-> {}]
NoProc == [IdleProc EXCEPT !.alive = FALSE]

\* call: the pty call made (which instance, with which keyword arguments),
\* path: the branch of forkpty taken, made: the pty pair exists, pty: its
\* slave terminal, applied: the processes that have called tofd in the pty
\* call, o: the child's copy of the caller's memory
NoCallYet ==
    [op |-> "none", inst |-> 0, apply_termios |-> PyBool(TRUE),
     apply_winsize |-> PyBool(TRUE)]
LinuxPlatform ==
    [has_forkpty |-> TRUE, has_ptsname |-> FALSE, call |-> NoCallYet,
     path |-> "none", made |-> FALSE, pty |-> NewPtyTerm, applied |-> {},
     proc |-> ("parent" :> IdleProc @@ "child" :> NoProc),
     o |-> [o |-> NewObj, dw |-> <<24, 80>>]]
\* hasattr(os, "forkpty"), hasattr(os, "ptsname") as platforms have them
Platforms ==
    {[LinuxPlatform EXCEPT !.has_forkpty = f, !.has_ptsname = p] :
        f \in BOOLEAN, p \in BOOLEAN}

\* termios.TCSANOW, termios.TCSADRAIN, termios.TCSAFLUSH
TCSANOW == 0
TCSADRAIN == 1
TCSAFLUSH == 2
Whens == {TCSANOW, TCSADRAIN, TCSAFLUSH}

\* the value tcsetattr hands the kernel for one control-character slot: the
\* byte of a bytes object of length 1, an int cut to eight bits, or none
CcByte(x) ==
    IF IsBytes(x) /\ Len(x.v) = 1 THEN x.v[1]
    ELSE IF IsInt(x) /\ IntOf(x) >= 0 THEN IntOf(x) % 256
    ELSE -1

\* termios.tcsetattr(fd, when, attributes) on the terminal behind fd; when
\* orders the change against pending input and output, which the terminal
\* record does not hold
tcsetattr(term, when, attrs) ==
    IF when \notin Whens THEN [res |-> "termios.error", term |-> term]
    ELSE IF \E slot \in CcSlots : CcByte(attrs.cc[slot]) = -1
        THEN [res |-> "TypeError", term |-> term]
    ELSE [res |-> "ok",
          term |-> [term EXCEPT !.iflag = attrs.iflag, !.oflag = attrs.oflag,
                                !.cflag = attrs.cflag, !.lflag = attrs.lflag,
                                !.ispeed = attrs.ispeed,
                                !.ospeed = attrs.ospeed,
                                !.cc = [slot \in CcSlots |->
                                           CcByte(attrs.cc[slot])]]]

\* termios.tcsetwinsize(fd, winsize): the kernel's fields are unsigned short
tcsetwinsize(term, winsize) ==
    IF \E k \in 1..2 : winsize[k] < 0 \/ winsize[k] > 65535
        THEN [res |-> "OverflowError", term |-> term]
    ELSE [res |-> "ok",
          term |-> [term EXCEPT !.rows = winsize[1], !.cols = winsize[2]]]

\* tofd that refreshes the instance from the terminal it has written
tofd_rereads(w, term, when, apply_termios, apply_winsize, oserr) ==
    LET t == IF ~Truthy(apply_termios) THEN [res |-> "ok", term |-> term]
             ELSE IF oserr = "tcsetattr"
                 THEN [res |-> "termios.error", term |-> term]
             ELSE tcsetattr(term, when, w.o.termios)
        u == IF t.res # "ok" THEN t
             ELSE IF ~(Truthy(apply_winsize) /\ w.o.ws # "none") THEN t
             ELSE IF oserr = "tcsetwinsize"
                 THEN [res |-> "termios.error", term |-> t.term]
             ELSE tcsetwinsize(t.term, WinsizeOf(w))
    IN [o |-> [w.o EXCEPT !.termios = tcgetattr(u.term)], dw |-> w.dw,
        res |-> u.res, term |-> u.term]

\* tofd that writes the window size only together with the attributes
tofd_window_needs_attrs(w, term, when, apply_termios, apply_winsize, oserr) ==
    LET t == IF ~Truthy(apply_termios) THEN [res |-> "ok", term |-> term]
             ELSE IF oserr = "tcsetattr"
                 THEN [res |-> "termios.error", term |-> term]
             ELSE tcsetattr(term, when, w.o.termios)
        u == IF t.res # "ok" THEN t
             ELSE IF ~(Truthy(apply_winsize) /\ Truthy(apply_termios)) THEN t
             ELSE IF oserr = "tcsetwinsize"
                 THEN [res |-> "termios.error", term |-> t.term]
             ELSE tcsetwinsize(t.term, WinsizeOf(w))
    IN [o |-> w.o, dw |-> w.dw, res |-> u.res, term |-> u.term]

\* tofd(fd, when, apply_termios, apply_winsize) on the terminal behind fd;
\* oserr names the OS call that fails this time, if any.  The result has
\* the instance, the exception or "ok", and the terminal afterwards
tofd(w, term, when, apply_termios, apply_winsize, oserr) ==
    LET t == IF ~Truthy(apply_termios) THEN [res |-> "ok", term |-> term]
             ELSE IF oserr = "tcsetattr"
                 THEN [res |-> "termios.error", term |-> term]
             ELSE tcsetattr(term, when, w.o.termios)
        u == IF t.res # "ok" THEN t
             ELSE IF ~(Truthy(apply_winsize) /\ w.o.ws # "none") THEN t
             ELSE IF oserr = "tcsetwinsize"
                 THEN [res |-> "termios.error", term |-> t.term]
             ELSE tcsetwinsize(t.term, WinsizeOf(w))
    IN [o |-> w.o, dw |-> w.dw, res |-> u.res, term |-> u.term]

\* openpty(apply_termios, apply_winsize) called in process p of k: the
\* pair stays open in p however the call ends
openpty(w, k, p, apply_termios, apply_winsize, oserr) ==
    IF oserr = "openpty" THEN [res |-> "OSError", os |-> k, ret |-> NoReturn]
    ELSE
    LET k1 == [k EXCEPT !.made = TRUE, !.pty = NewPtyTerm,
                        !.proc[p].fds = @ \cup {MasterFd, SlaveFd}]
        t == tofd(w, k1.pty, TCSANOW, apply_termios, apply_winsize, oserr)
        k2 == [k1 EXCEPT !.pty = t.term, !.applied = @ \cup {p}]
    IN  IF t.res # "ok" THEN [res |-> t.res, os |-> k2, ret |-> NoReturn]
        ELSE IF oserr = "ttyname"
            THEN [res |-> "OSError", os |-> k2, ret |-> NoReturn]
        ELSE [res |-> "ok", os |-> k2,
              ret |-> [pid |-> -1, m |-> MasterFd, s |-> SlaveFd,
                       sname |-> SlavePath, via |-> "ttyname"]]

\* child = 0, the pid os.fork() and os.forkpty() return in the child, and
\* a pid they return in the parent
child == 0
ChildPid == 7

\* the calling process leaves the pty call with exception e
Raise(k, p, e) ==
    [k EXCEPT !.proc[p].pc = "raised", !.proc[p].res = e]

\* forkpty(apply_termios, apply_winsize) in the calling process, up to and
\* including the fork
forkpty_fork(w, k, apply_termios, apply_winsize, oserr) ==
    LET kc == [k EXCEPT !.call = [op |-> "forkpty", inst |-> 0,
                                  apply_termios |-> apply_termios,
                                  apply_winsize |-> apply_winsize],
                        !.o = w]
    IN
    IF k.has_ptsname
    THEN IF ~k.has_forkpty THEN Raise(kc, "parent", "AttributeError")
         ELSE IF oserr = "forkpty" THEN Raise(kc, "parent", "OSError")
         ELSE [kc EXCEPT
                 !.made = TRUE, !.pty = NewPtyTerm, !.path = "integrated",
                 !.proc["parent"].fds = @ \cup {MasterFd},
                 !.proc["parent"].pc = "forked",
                 !.proc["parent"].ret.m = MasterFd,
                 !.proc["child"] =
                     [IdleProc EXCEPT !.pc = "forked", !.stdin = "slave",
                                      !.ctty = "slave"]]
    ELSE LET r == openpty(w, kc, "parent", apply_termios, apply_winsize,
                          oserr)
         IN IF r.res # "ok" THEN Raise(r.os, "parent", r.res)
            ELSE IF oserr = "fork" THEN Raise(r.os, "parent", "OSError")
            ELSE [r.os EXCEPT
                    !.path = "manual",
                    !.proc["parent"].pc = "forked",
                    !.proc["parent"].ret = r.ret,
                    !.proc["child"] =
                        [r.os.proc["parent"] EXCEPT !.pc = "forked",
                                                    !.ret = r.ret]]

\* the else branch of "if pid == child" on the manual path that leaves the
\* slave open
manual_parent_keeps_slave(k) ==
    [k EXCEPT !.proc["parent"].pc = "returned",
              !.proc["parent"].res = "ok",
              !.proc["parent"].ret.pid = ChildPid,
              !.proc["parent"].ran = @ \cup {"parent"}]

\* the else branch of "if pid == child" on the manual path: os.close(s)
manual_parent(k) ==
    [k EXCEPT !.proc["parent"].fds = @ \ {SlaveFd},
              !.proc["parent"].pc = "returned",
              !.proc["parent"].res = "ok",
              !.proc["parent"].ret.pid = ChildPid,
              !.proc["parent"].ran = @ \cup {"parent"}]

\* the else branch on the integrated path: sname = os.ptsname(m)
integrated_parent(k, oserr) ==
    IF oserr = "ptsname"
    THEN [Raise(k, "parent", "OSError") EXCEPT
             !.proc["parent"].ran = @ \cup {"parent"}]
    ELSE [k EXCEPT !.proc["parent"].pc = "returned",
                   !.proc["parent"].res = "ok",
                   !.proc["parent"].ret.pid = ChildPid,
                   !.proc["parent"].ret.sname = SlavePath,
                   !.proc["parent"].ret.via = "ptsname",
                   !.proc["parent"].ran = @ \cup {"parent"}]

\* the child on the manual path: os.close(m)
manual_child_close(k) ==
    [k EXCEPT !.proc["child"].fds = @ \ {MasterFd},
              !.proc["child"].pc = "closed_m",
              !.proc["child"].ran = @ \cup {"child"}]

\* the child on the manual path: os.login_tty(s), which makes the slave
\* the controlling terminal and descriptors 0, 1, 2 and closes s
manual_child_login(k, oserr) ==
    IF oserr = "login_tty" THEN Raise(k, "child", "OSError")
    ELSE [k EXCEPT !.proc["child"].fds = @ \ {SlaveFd},
                   !.proc["child"].stdin = "slave",
                   !.proc["child"].ctty = "slave",
                   !.proc["child"].pc = "returned",
                   !.proc["child"].res = "ok",
                   !.proc["child"].ret.pid = child]

\* the child on the integrated path: self.tofd(stdin_fd, ...)
integrated_child_apply(k, oserr) ==
    LET t == tofd(k.o, k.pty, TCSANOW, k.call.apply_termios,
                  k.call.apply_winsize, oserr)
        k1 == [k EXCEPT !.pty = t.term, !.applied = @ \cup {"child"},
                        !.proc["child"].ran = @ \cup {"child"}]
    IN IF t.res # "ok" THEN Raise(k1, "child", t.res)
       ELSE [k1 EXCEPT !.proc["child"].pc = "applied"]

\* the child on the integrated path: sname = os.ttyname(stdin_fd)
integrated_child_return(k, oserr) ==
    IF oserr = "ttyname" THEN Raise(k, "child", "OSError")
    ELSE [k EXCEPT !.proc["child"].pc = "returned",
                   !.proc["child"].res = "ok",
                   !.proc["child"].ret.pid = child,
                   !.proc["child"].ret.sname = SlavePath,
                   !.proc["child"].ret.via = "ttyname"]

----------------------------------------------------------------------------
(* The calls a program makes *)

NoCall == [op |-> "none", inst |-> 0, arg |-> <<>>, res |-> "ok", was |-> "new"]
NoFile == [exists |-> FALSE, doc |-> <<>>, src |-> 0, clean |-> FALSE]
NoValue == [t |-> "pending", v |-> <<>>]

\* no result of get() is kept
NothingKept == [taken |-> FALSE, items |-> <<>>, o |-> NewObj,
                winsize |-> <<0, 0>>]

World(i) == [o |-> obj[i], dw |-> default_winsize]

\* the instance and the module list after a call that returned r
Commit(i, r, op, arg) ==
    /\ obj' = [obj EXCEPT ![i] = r.o]
    /\ default_winsize' = r.dw
    /\ last' = [op |-> op, inst |-> i, arg |-> arg, res |-> r.res,
                was |-> obj[i].state]
    /\ nops' = nops + 1
    /\ pristine' = pristine \ {i}
    /\ UNCHANGED <<fdterm, tty, file, cin, cout, cback, cloned, os, kept>>

Init ==
    /\ obj = [i \in Inst |-> NewObj]
    /\ default_winsize = <<24, 80>>
    /\ fdterm \in FdTerminals
    /\ tty \in TtyTerminals
    /\ file = NoFile
    /\ last = NoCall
    /\ nops = 0
    /\ pristine = {}
    /\ cin = NoValue
    /\ cout = NoValue
    /\ cback = NoValue
    /\ cloned = FALSE
    /\ os = LinuxPlatform
    /\ kept = NothingKept

\* Stty(fd=fd): an exception leaves the caller without the object
FromFd(i) ==
    /\ obj[i].state = "new"
    /\ i = 1
    /\ LET r == fromfd(World(i), fdterm) IN
        /\ obj' = [obj EXCEPT ![i] = IF r.res = "ok" THEN r.o ELSE obj[i]]
        /\ default_winsize' = r.dw
        /\ last' = [op |-> "fromfd", inst |-> i, arg |-> <<>>, res |-> r.res,
                    was |-> "new"]
        /\ pristine' = IF r.res = "ok" THEN pristine \cup {i} ELSE pristine
    /\ UNCHANGED <<fdterm, tty, file, nops, cin, cout, cback, cloned, os, kept>>

\* x.name = value
DoSet(i, name, value, bound) ==
    /\ obj[i].state = "live"
    /\ nops < bound
    /\ Commit(i, Setattr(World(i), name, value), "set", <<<<name, value>>>>)

\* x.set(**opts)
DoSetMany(i, opts) ==
    /\ obj[i].state = "live"
    /\ nops < MaxOps
    /\ Commit(i, SetMany(World(i), opts), "set_many", opts)

DoRaw(i) ==
    /\ obj[i].state = "live"
    /\ nops < MaxOps
    /\ Commit(i, raw(World(i)), "raw", <<>>)

DoEvenp(i, plus) ==
    /\ obj[i].state = "live"
    /\ nops < MaxOps
    /\ Commit(i, evenp(World(i), plus), "evenp", <<<<"plus", plus>>>>)

DoOddp(i, plus) ==
    /\ obj[i].state = "live"
    /\ nops < MaxOps
    /\ Commit(i, oddp(World(i), plus), "oddp", <<<<"plus", plus>>>>)

DoNl(i, plus) ==
    /\ obj[i].state = "live"
    /\ nops < MaxOps
    /\ Commit(i, nl(World(i), plus), "nl", <<<<"plus", plus>>>>)

DoEk(i) ==
    /\ obj[i].state = "live"
    /\ nops < MaxOps
    /\ Commit(i, ek(World(i)), "ek", <<>>)

\* x.save(path)
DoSave(i, ord) ==
    /\ obj[i].state = "live"
    /\ nops < MaxOps
    /\ file' = [exists |-> TRUE, doc |-> save(obj[i], ord), src |-> i,
                clean |-> i \in pristine]
    /\ last' = [op |-> "save", inst |-> i, arg |-> <<>>, res |-> "ok",
                was |-> "live"]
    /\ nops' = nops + 1
    /\ UNCHANGED <<obj, default_winsize, fdterm, tty, pristine, cin, cout,
                   cback, cloned, os, kept>>

\* y = x.save(): instance 2 becomes the deep copy of instance 1
DoSnapshot ==
    /\ obj[1].state = "live"
    /\ ~cloned
    /\ obj' = [obj EXCEPT ![2] = deepcopy(World(1))]
    /\ last' = [op |-> "snapshot", inst |-> 1, arg |-> <<>>, res |-> "ok",
                was |-> "live"]
    /\ cloned' = TRUE
    /\ pristine' = pristine \ {2}
    /\ UNCHANGED <<default_winsize, fdterm, tty, file, nops, cin, cout,
                   cback, os, kept>>

\* x.load(path) on a live instance, or Stty(path=path), which leaves the
\* caller without the object when load raises
LoadDoc(i, doc, op) ==
    /\ nops < MaxOps
    /\ LET r == load(World(i), tty, doc) IN
        /\ obj' = [obj EXCEPT ![i] =
                      IF r.res # "ok" /\ obj[i].state = "new" THEN obj[i]
                      ELSE r.o]
        /\ default_winsize' = r.dw
        /\ last' = [op |-> op, inst |-> i, arg |-> JsonLoadDict(doc),
                    res |-> r.res, was |-> obj[i].state]
    /\ nops' = nops + 1
    /\ pristine' = pristine \ {i}
    /\ cloned' = FALSE
    /\ UNCHANGED <<fdterm, tty, file, cin, cout, cback, os, kept>>

\* the document is the one save wrote
DoLoad(i) ==
    /\ file.exists
    /\ (i = 1) => obj[i].state = "live"
    /\ LoadDoc(i, file.doc, "load")

\* the document is one save did not write
DoLoadExternal(i, doc) ==
    /\ (i = 1) => obj[i].state = "live"
    /\ LoadDoc(i, doc, "load_ext")

\* orig = x.get(): the dictionary of values is kept; o and winsize record
\* what the instance held then
DoKeep(i) ==
    /\ obj[i].state = "live"
    /\ ~kept.taken
    /\ kept' = [taken |-> TRUE, items |-> get(obj[i], NameOrder),
                o |-> obj[i], winsize |-> WinsizeOf(World(i))]
    /\ UNCHANGED <<obj, default_winsize, fdterm, tty, file, last, nops,
                   pristine, cin, cout, cback, cloned, os>>

\* the kept dictionary with its items in the order ord
InOrder(items, ord) ==
    [k \in 1..Len(ord) |-> <<ord[k], DictGet(items, ord[k])>>]

\* for k, v in orig.items(): setattr(x, k, v)
DoRestore(i, ord) ==
    /\ obj[i].state = "live"
    /\ kept.taken
    /\ LET r == SetEach(World(i), InOrder(kept.items, ord)) IN
        /\ obj' = [obj EXCEPT ![i] = r.o]
        /\ default_winsize' = r.dw
        /\ last' = [op |-> "restore", inst |-> i, arg |-> <<>>,
                    res |-> r.res, was |-> "live"]
    /\ pristine' = pristine \ {i}
    /\ UNCHANGED <<fdterm, tty, file, nops, cin, cout, cback, cloned, os,
                   kept>>

\* the terminal behind a descriptor of the calling process
TermOf(fd) == IF fd = STDIN_FILENO THEN fdterm ELSE os.pty

\* x.tofd(fd, when, apply_termios, apply_winsize) in the calling process
DoTofd(i, fd, when, apply_termios, apply_winsize, oserr, bound) ==
    /\ obj[i].state = "live"
    /\ nops < bound
    /\ os.proc["parent"].pc \in {"idle", "returned", "raised"}
    /\ fd = STDIN_FILENO \/ (fd = SlaveFd /\ fd \in os.proc["parent"].fds)
    /\ LET r == tofd(World(i), TermOf(fd), when, apply_termios,
                     apply_winsize, oserr)
       IN /\ obj' = [obj EXCEPT ![i] = r.o]
          /\ default_winsize' = r.dw
          /\ fdterm' = IF fd = STDIN_FILENO THEN r.term ELSE fdterm
          /\ os' = IF fd = STDIN_FILENO THEN os
                   ELSE [os EXCEPT !.pty = r.term]
          /\ last' = [op |-> "tofd", inst |-> i,
                      arg |-> <<<<"fd", PyInt(fd)>>, <<"when", PyInt(when)>>,
                                <<"apply_termios", apply_termios>>,
                                <<"apply_winsize", apply_winsize>>>>,
                      res |-> r.res, was |-> "live"]
    /\ nops' = nops + 1
    /\ UNCHANGED <<tty, file, pristine, cin, cout, cback, cloned, kept>>

\* the pty call made: which method, on which instance, with which arguments
PtyCall(op, i, apply_termios, apply_winsize) ==
    [op |-> op, inst |-> i, apply_termios |-> apply_termios,
     apply_winsize |-> apply_winsize]

\* m, s, sname = x.openpty(apply_termios, apply_winsize)
DoOpenpty(i, apply_termios, apply_winsize, oserr) ==
    /\ obj[i].state = "live"
    /\ os.proc["parent"].pc = "idle"
    /\ LET r == openpty(World(i), os, "parent", apply_termios,
                        apply_winsize, oserr)
       IN os' = [r.os EXCEPT
                    !.call = PtyCall("openpty", i, apply_termios,
                                     apply_winsize),
                    !.proc["parent"].pc =
                        IF r.res = "ok" THEN "returned" ELSE "raised",
                    !.proc["parent"].res = r.res,
                    !.proc["parent"].ret = r.ret]
    /\ UNCHANGED <<obj, default_winsize, fdterm, tty, file, last, nops,
                   pristine, cin, cout, cback, cloned, kept>>

\* pid, m, sname = x.forkpty(apply_termios, apply_winsize), up to the fork
DoForkpty(i, apply_termios, apply_winsize, oserr) ==
    /\ obj[i].state = "live"
    /\ os.proc["parent"].pc = "idle"
    /\ os' = [forkpty_fork(World(i), os, apply_termios, apply_winsize,
                           oserr)
                 EXCEPT !.call.inst = i]
    /\ UNCHANGED <<obj, default_winsize, fdterm, tty, file, last, nops,
                   pristine, cin, cout, cback, cloned, kept>>

\* the parent after the fork on the manual path
ParentManual ==
    /\ os.path = "manual"
    /\ os.proc["parent"].pc = "forked"
    /\ os' = manual_parent(os)
    /\ UNCHANGED <<obj, default_winsize, fdterm, tty, file, last, nops,
                   pristine, cin, cout, cback, cloned, kept>>

\* the parent after the fork on the integrated path
ParentIntegrated(oserr) ==
    /\ os.path = "integrated"
    /\ os.proc["parent"].pc = "forked"
    /\ os' = integrated_parent(os, oserr)
    /\ UNCHANGED <<obj, default_winsize, fdterm, tty, file, last, nops,
                   pristine, cin, cout, cback, cloned, kept>>

\* the child after the fork on the manual path, first statement
ChildCloseMaster ==
    /\ os.path = "manual"
    /\ os.proc["child"].pc = "forked"
    /\ os' = manual_child_close(os)
    /\ UNCHANGED <<obj, default_winsize, fdterm, tty, file, last, nops,
                   pristine, cin, cout, cback, cloned, kept>>

\* the child on the manual path, second statement and return
ChildLoginTty(oserr) ==
    /\ os.path = "manual"
    /\ os.proc["child"].pc = "closed_m"
    /\ os' = manual_child_login(os, oserr)
    /\ UNCHANGED <<obj, default_winsize, fdterm, tty, file, last, nops,
                   pristine, cin, cout, cback, cloned, kept>>

\* the child after the fork on the integrated path, first statement
ChildApply(oserr) ==
    /\ os.path = "integrated"
    /\ os.proc["child"].pc = "forked"
    /\ os' = integrated_child_apply(os, oserr)
    /\ UNCHANGED <<obj, default_winsize, fdterm, tty, file, last, nops,
                   pristine, cin, cout, cback, cloned, kept>>

\* the child on the integrated path, second statement and return
ChildReturn(oserr) ==
    /\ os.path = "integrated"
    /\ os.proc["child"].pc = "applied"
    /\ os' = integrated_child_return(os, oserr)
    /\ UNCHANGED <<obj, default_winsize, fdterm, tty, file, last, nops,
                   pristine, cin, cout, cback, cloned, kept>>

----------------------------------------------------------------------------
(* Inputs *)

Bools == {PyBool(TRUE), PyBool(FALSE)}

\* the assignments tried in sequences of calls
SomeSets ==
    {<<"icanon", PyBool(TRUE)>>, <<"icanon", PyBool(FALSE)>>,
     <<"echo", PyBool(FALSE)>>, <<"echo", PyNone>>,
     <<"parenb", PyBool(TRUE)>>,
     <<"csize", PyStr(str_cs7)>>, <<"csize", PyInt(48)>>,
     <<"csize", PyInt(1)>>, <<"nldly", PyStr(str_nl1)>>,
     <<"ispeed", PyInt(9600)>>, <<"ospeed", PyInt(7)>>,
     <<"erase", PyStr(<<94, 104>>)>>, <<"erase", PyBytes(<<128>>)>>,
     <<"eof", PyStr(str_undef)>>,
     <<"min", PyInt(300)>>, <<"min", PyInt(-1)>>,
     <<"time", PyBytes(<<5>>)>>,
     <<"rows", PyInt(40)>>, <<"cols", PyInt(-1)>>,
     <<"foobar", PyInt(1)>>, <<"_termios", PyInt(1)>>}

\* the keyword dictionaries tried with set()
SomeMaps ==
    {<<<<"echo", PyBool(FALSE)>>, <<"icanon", PyBool(FALSE)>>>>,
     <<<<"echo", PyBool(FALSE)>>, <<"foobar", PyInt(1)>>>>,
     <<<<"parenb", PyBool(TRUE)>>, <<"csize", PyInt(1)>>,
       <<"rows", PyInt(40)>>>>,
     <<<<"cols", PyInt(100)>>, <<"kill", PyStr(<<94, 117>>)>>,
       <<"erase", PyStr(<<94, 49>>)>>, <<"opost", PyBool(FALSE)>>>>,
     <<<<"ispeed", PyInt(50)>>, <<"min", PyBytes(<<>>)>>>>}

\* every name and every value, for one assignment
AllNames == _available \cup RawNames \cup {"foobar", "ECHO"}
AllValues ==
    Bools \cup {PyNone}
    \cup {PyInt(n) : n \in {-1, 0, 1, 5, 7, 16, 32, 48, 50, 256, 300,
                            9600, 38400}}
    \cup {PyStr(s) : s \in {str_cs5, str_cs6, str_cs7, str_cs8, str_nl0,
                            str_nl1, <<67, 83, 56>>, <<>>, <<97>>, <<94>>,
                            <<94, 67>>, <<94, 99>>, str_caret_query,
                            str_caret_minus, str_undef, <<94, 49>>,
                            <<94, 64>>, <<1>>, <<128>>, <<256>>,
                            <<97, 98, 99>>}}
    \cup {PyBytes(s) : s \in {<<>>, <<0>>, <<3>>, <<97>>, <<127>>, <<128>>,
                              <<255>>, <<97, 98>>}}

----------------------------------------------------------------------------
(* Specifications *)

\* sequences of calls on instances read from a descriptor or loaded
Next ==
    \E i \in Inst :
        \/ FromFd(i)
        \/ \E p \in SomeSets : DoSet(i, p[1], p[2], MaxOps)
        \/ \E opts \in SomeMaps : DoSetMany(i, opts)
        \/ DoRaw(i)
        \/ \E plus \in Bools : DoEvenp(i, plus)
        \/ \E plus \in Bools : DoOddp(i, plus)
        \/ \E plus \in Bools : DoNl(i, plus)
        \/ DoEk(i)
        \/ \E ord \in Orders : DoSave(i, ord)
        \/ DoLoad(i)
        \/ \E doc \in ExternalDocs : DoLoadExternal(i, doc)
        \/ DoSnapshot

Spec == Init /\ [][Next]_vars

\* one instance read from a descriptor, then assignments of every value to
\* every name
NextSet ==
    \/ FromFd(1)
    \/ \E name \in AllNames, value \in AllValues :
           DoSet(1, name, value, MaxSets)

\* one terminal state in each mode is enough for single assignments
SetInit == Init /\ fdterm \in {BaseTerm, NoncanonTerm} /\ tty = BaseTerm

SetSpec == SetInit /\ [][NextSet]_vars

\* termios.VMIN by platform: a slot of its own (Linux on most machines,
\* the BSDs), or the slot of VEOF (Solaris, Linux on SPARC)
MinSlots == {_noncanon_d.min, _cc_d.eof}

\* single assignments on each layout of the control-character table
FrameInit ==
    /\ \E v \in MinSlots :
        /\ obj = [i \in Inst |-> [NewObj EXCEPT !.vmin = v]]
        /\ fdterm \in {[T EXCEPT !.vmin = v] : T \in {BaseTerm, NoncanonTerm}}
    /\ default_winsize = <<24, 80>>
    /\ tty = BaseTerm
    /\ file = NoFile
    /\ last = NoCall
    /\ nops = 0
    /\ pristine = {}
    /\ cin = NoValue
    /\ cout = NoValue
    /\ cback = NoValue
    /\ cloned = FALSE
    /\ os = LinuxPlatform
    /\ kept = NothingKept

FrameSpec == FrameInit /\ [][NextSet]_vars

\* the codec alone: every single character, every "^" + character, and
\* some other strings
CodecInputs ==
    {PyStr(<<c>>) : c \in 0..MaxChar}
    \cup {PyStr(<<94, c>>) : c \in 0..MaxChar}
    \cup {PyStr(s) : s \in {<<>>, str_undef, <<117, 110, 100>>,
                            <<94, 67, 67>>, <<94, 45, 45>>, <<97, 98>>,
                            <<97, 98, 99>>, <<85, 78, 68, 69, 70>>,
                            <<32, 94>>, <<117, 110, 100, 101, 102, 32>>}}
    \cup {PyBytes(<<b>>) : b \in 0..255}
    \cup {PyBytes(<<>>), PyBytes(<<1, 2>>)}

CodecInit ==
    /\ obj = [i \in Inst |-> NewObj]
    /\ default_winsize = <<24, 80>>
    /\ fdterm = BaseTerm
    /\ tty = BaseTerm
    /\ file = NoFile
    /\ last = NoCall
    /\ nops = 0
    /\ pristine = {}
    /\ cin \in CodecInputs
    /\ cout = NoValue
    /\ cback = NoValue
    /\ cloned = FALSE
    /\ os = LinuxPlatform
    /\ kept = NothingKept

\* cc_str_to_bytes(cin)
Encode ==
    /\ IsStr(cin)
    /\ cout = NoValue
    /\ cout' = cc_str_to_bytes(cin.v)
    /\ UNCHANGED <<obj, default_winsize, fdterm, tty, file, last, nops,
                   pristine, cin, cback, cloned, os, kept>>

\* cc_bytes_to_str(cin)
Decode ==
    /\ IsBytes(cin)
    /\ cout = NoValue
    /\ cout' = cc_bytes_to_str(cin)
    /\ UNCHANGED <<obj, default_winsize, fdterm, tty, file, last, nops,
                   pristine, cin, cback, cloned, os, kept>>

\* cc_bytes_to_str(cc_str_to_bytes(cin)), as the control-character branch
\* of __setattr__ chains them; an exception raised by the first ends it
DecodeBack ==
    /\ IsStr(cin)
    /\ cout # NoValue
    /\ ~Raised(cout)
    /\ cback = NoValue
    /\ cback' = cc_bytes_to_str(cout)
    /\ UNCHANGED <<obj, default_winsize, fdterm, tty, file, last, nops,
                   pristine, cin, cout, cloned, os, kept>>

CodecNext == Encode \/ Decode \/ DecodeBack

CodecSpec == CodecInit /\ [][CodecNext]_vars

----------------------------------------------------------------------------
(* What the claims speak of *)

\* the raw bits or slot that belong to name
RawPart(w, name) ==
    IF name \in DOMAIN _bool_d
        THEN <<BitAnd(w.o.termios[_bool_d[name].flag], _bool_d[name].mask)>>
    ELSE IF name \in DOMAIN _symbol_d
        THEN <<BitAnd(w.o.termios[_symbol_d[name].flag],
                      _symbol_d[name].mask)>>
    ELSE IF name \in DOMAIN _speed_d THEN <<w.o.termios[_speed_d[name]]>>
    ELSE IF name \in DOMAIN _cc_d THEN w.o.termios.cc[_cc_d[name]].v
    ELSE IF name \in DOMAIN _noncanon_d
        THEN w.o.termios.cc[NoncanonSlot(w.o, name)].v
    ELSE <<WinsizeOf(w)[_winsz_d[name]]>>

\* the cached value of name says what the raw buffers hold
Agrees(w, name) ==
    /\ name \in DOMAIN w.o.attrs
    /\ LET c == w.o.attrs[name] IN
        IF name \in DOMAIN _bool_d
            THEN /\ IsBool(c)
                 /\ Truthy(c) = (RawPart(w, name) = <<_bool_d[name].mask>>)
        ELSE IF name \in DOMAIN _symbol_d
            THEN /\ RawPart(w, name)[1] \in DOMAIN _symbol_d[name].avail
                 /\ c = PyStr(_symbol_d[name].avail[RawPart(w, name)[1]])
        ELSE IF name \in DOMAIN _speed_d
            THEN /\ IsInt(c)
                 /\ IntOf(c) \in DOMAIN _baud_d
                 /\ <<_baud_d[IntOf(c)]>> = RawPart(w, name)
        ELSE IF name \in DOMAIN _cc_d
            THEN c = cc_bytes_to_str(w.o.termios.cc[_cc_d[name]])
        ELSE IsInt(c) /\ <<IntOf(c)>> = RawPart(w, name)

Consistent(i) == \A name \in _available : Agrees(World(i), name)

SetErrors == {"TypeError", "ValueError"}
IsLoad(op) == op \in {"load", "load_ext"}

\* one instance read from a descriptor, its values kept at some point,
\* changed, and set back to the kept values in one order or the other
RestoreNext ==
    \/ FromFd(1)
    \/ DoKeep(1)
    \/ \E p \in SomeSets : DoSet(1, p[1], p[2], MaxChanges)
    \/ \E ord \in Orders : DoRestore(1, ord)

RestoreSpec == Init /\ [][RestoreNext]_vars

\* the assignments tried before a terminal is written
PtySets ==
    {<<"parenb", PyBool(TRUE)>>, <<"min", PyInt(300)>>,
     <<"rows", PyInt(40)>>, <<"rows", PyInt(70000)>>}

\* the OS calls that fail in the runs explored: at most one per step
TofdErrors == {"none", "tcsetattr", "tcsetwinsize"}
OpenptyErrors == TofdErrors \cup {"openpty", "ttyname"}
ForkptyErrors == OpenptyErrors \cup {"forkpty", "fork"}

\* one instance read from a descriptor and changed, then written to a
\* terminal, or used for one pty call whose processes run in any order
PtyNext ==
    \/ FromFd(1)
    \/ \E p \in PtySets : DoSet(1, p[1], p[2], MaxPtyOps)
    \/ \E fd \in {STDIN_FILENO, SlaveFd}, when \in Whens,
          apply_termios \in Bools, apply_winsize \in Bools,
          oserr \in TofdErrors :
           DoTofd(1, fd, when, apply_termios, apply_winsize, oserr,
                  MaxPtyOps)
    \/ \E apply_termios \in Bools, apply_winsize \in Bools,
          oserr \in OpenptyErrors :
           DoOpenpty(1, apply_termios, apply_winsize, oserr)
    \/ \E apply_termios \in Bools, apply_winsize \in Bools,
          oserr \in ForkptyErrors :
           DoForkpty(1, apply_termios, apply_winsize, oserr)
    \/ ParentManual
    \/ \E oserr \in {"none", "ptsname"} : ParentIntegrated(oserr)
    \/ ChildCloseMaster
    \/ \E oserr \in {"none", "login_tty"} : ChildLoginTty(oserr)
    \/ \E oserr \in TofdErrors : ChildApply(oserr)
    \/ \E oserr \in {"none", "ttyname"} : ChildReturn(oserr)

\* every platform, and one terminal behind descriptor 0
PtyInit ==
    /\ obj = [i \in Inst |-> NewObj]
    /\ default_winsize = <<24, 80>>
    /\ fdterm = BaseTerm
    /\ tty = BaseTerm
    /\ file = NoFile
    /\ last = NoCall
    /\ nops = 0
    /\ pristine = {}
    /\ cin = NoValue
    /\ cout = NoValue
    /\ cback = NoValue
    /\ cloned = FALSE
    /\ os \in Platforms
    /\ kept = NothingKept

PtySpec == PtyInit /\ [][PtyNext]_vars

----------------------------------------------------------------------------
(* Claims *)

\* C1: whenever control is back at the caller, every cached attribute of
\* the instance read from the descriptor agrees with its raw buffers.
C1_CacheAgreesWithRaw ==
    obj[1].state = "live" => Consistent(1)

\* C2: an assignment that fails with TypeError or ValueError leaves the
\* raw buffers, the window size and every cached value as they were.
C2_FailedSetChangesNothing ==
    [][(last'.op = "set" /\ last'.res \in SetErrors)
        => (obj' = obj /\ default_winsize' = default_winsize)]_vars

C2_Witness ==
    /\ last.op = "set"
    /\ last.arg = <<<<"erase", PyBytes(<<128>>)>>>>
    /\ last.res = "ValueError"

\* C3: set() with a key outside the capability set fails with
\* AttributeError and changes nothing, the valid keys before it included.
C3_UnknownKeyRejectsAll ==
    [][(last'.op = "set_many" /\ Keys(last'.arg) \ _available # {})
        => (/\ last'.res = "AttributeError"
            /\ obj' = obj
            /\ default_winsize' = default_winsize)]_vars

C3_Witness ==
    /\ last.op = "set_many"
    /\ Len(last.arg) = 2
    /\ last.arg[1][1] \in _available
    /\ last.arg[2][1] \notin _available
    /\ last.res = "AttributeError"

\* C4 as stated: set() whose keys are all known and one of whose pairs
\* fails leaves every attribute, raw and cached, as before the call.
C4_FailedSetManyChangesNothing ==
    [][(/\ last'.op = "set_many"
        /\ Keys(last'.arg) \subseteq _available
        /\ last'.res \in SetErrors)
        => (obj' = obj /\ default_winsize' = default_winsize)]_vars

\* C4 amended: set() whose keys are all known and one of whose pairs fails
\* has applied the pairs before the failing one, each as a single
\* assignment would, and has left every other attribute, raw and cached,
\* as before the call.
C4_FailedSetManyKeepsTheRest ==
    [][(/\ last'.op = "set_many"
        /\ Keys(last'.arg) \subseteq _available
        /\ last'.res \in SetErrors)
        => LET i == last'.inst
               arg == last'.arg
               before == World(i)
               after == [o |-> obj'[i], dw |-> default_winsize']
           IN \E k \in 1..Len(arg) :
               /\ Setattr(before, arg[k][1], arg[k][2]).res = last'.res
               /\ \A m \in 1..(k - 1) :
                     LET r == Setattr(before, arg[m][1], arg[m][2]) IN
                     /\ r.res = "ok"
                     /\ Get(after.o, arg[m][1]) = Get(r.o, arg[m][1])
                     /\ RawPart(after, arg[m][1]) = RawPart(r, arg[m][1])
               /\ \A name \in _available \ {arg[m][1] : m \in 1..(k - 1)} :
                     /\ Get(after.o, name) = Get(before.o, name)
                     /\ RawPart(after, name) = RawPart(before, name)]_vars

C4_Witness ==
    /\ last.op = "set_many"
    /\ last.res = "ValueError"
    /\ last.arg[1] = <<"parenb", PyBool(TRUE)>>
    /\ last.arg[2] = <<"csize", PyInt(1)>>
    /\ Get(obj[1], "parenb") = PyBool(TRUE)
    /\ fdterm = BaseTerm

\* C5: a document saved from an instance as from_descriptor made it loads
\* into a new instance without error, and every attribute of the capability
\* set reads the same on both.
C5_SaveLoadRoundTrip ==
    (/\ last.op = "load"
     /\ last.was = "new"
     /\ file.clean
     /\ file.src \in pristine)
    => /\ last.res = "ok"
       /\ \A name \in _available :
             /\ ~Raised(Get(obj[last.inst], name))
             /\ Get(obj[last.inst], name) = Get(obj[file.src], name)

C5_Witness ==
    /\ last.op = "load"
    /\ last.was = "new"
    /\ last.res = "ok"
    /\ file.clean
    /\ file.src \in pristine
    /\ Get(obj[last.inst], "icanon") = PyBool(TRUE)
    /\ Get(obj[last.inst], "kill") = PyStr(<<94, 85>>)

\* C6: load of a document that lacks a name of the capability set fails
\* with ValueError, and a populated instance it was called on has the raw
\* buffers and cached values it had before.
C6_IncompleteLoadChangesNothing ==
    [][(IsLoad(last'.op) /\ _available \ Keys(last'.arg) # {})
        => (/\ last'.res = "ValueError"
            /\ last'.was = "live"
                  => (obj' = obj /\ default_winsize' = default_winsize))]_vars

C8_BooleanStrict ==
    [][(/\ last'.op = "set"
        /\ last'.arg[1][1] \in DOMAIN _bool_d
        /\ last'.arg[1][2] \notin Bools)
        => LET name == last'.arg[1][1] IN
           /\ last'.res = "TypeError"
           /\ Get(obj'[1], name) = Get(obj[1], name)
           /\ obj'[1].termios[_bool_d[name].flag]
                 = obj[1].termios[_bool_d[name].flag]]_vars

C8_Witness ==
    /\ last.op = "set"
    /\ last.arg = <<<<"echo", PyInt(1)>>>>
    /\ last.res = "TypeError"
    /\ Get(obj[1], "echo") = PyBool(TRUE)

\* C9: assigning to a symbolic-mask attribute a raw value that is none of
\* the mask's values, or a string that is none of its names, fails with
\* TypeError or ValueError and changes nothing.
C9_SymbolDomain ==
    [][(/\ last'.op = "set"
        /\ last'.arg[1][1] \in DOMAIN _symbol_d
        /\ LET x == _symbol_d[last'.arg[1][1]]
               value == last'.arg[1][2]
           IN /\ ~(IsInt(value) /\ IntOf(value) \in DOMAIN x.avail)
              /\ ~(IsStr(value) /\ value.v \in DOMAIN x.avail_inverse))
        => (/\ last'.res \in SetErrors
            /\ obj' = obj
            /\ default_winsize' = default_winsize)]_vars

C9_Witness ==
    /\ last.op = "set"
    /\ last.arg = <<<<"csize", PyStr(str_nl1)>>>>
    /\ last.res = "ValueError"

\* what the statement of encode_control_char calls printable, a letter,
\* and no value
Printable(c) == c \in 32..126 \/ c \in 161..172 \/ c >= 174
NoValueFrom(x) == x = PyNone \/ Raised(x)
CaretChars == {91, 92, 93, 94, 95}

\* C10 as stated: a single printable character gives its code point, "^X"
\* with X a letter or one of [ \ ] ^ _ gives X & 0x1F, "^?" gives 0x7F,
\* "^-" and "undef" give the disabled sentinel, any other string no value.
C10_EncodeAsStated ==
    (IsStr(cin) /\ cout # NoValue) =>
        LET s == cin.v IN
        IF Len(s) = 1 /\ Printable(s[1]) THEN cout = PyBytes(<<s[1]>>)
        ELSE IF s = str_caret_query THEN cout = PyBytes(<<127>>)
        ELSE IF s \in {str_caret_minus, str_undef}
            THEN cout = PyBytes(<<POSIX_VDISABLE>>)
        ELSE IF Len(s) = 2 /\ s[1] = 94
                /\ (IsAlpha(s[2]) \/ s[2] \in CaretChars)
            THEN cout = PyBytes(<<s[2] % 32>>)
        ELSE NoValueFrom(cout)

\* C10 amended: a single character up to U+00FF, printable or not, gives
\* its code point and a single character above U+00FF raises ValueError;
\* "^X" with X a letter or one of [ \ ] ^ _ gives X & 0x1F, "^?" gives
\* 0x7F, "^-" and "undef" give the disabled sentinel, and any other
\* string gives None.
C10_EncodeAnySingleChar ==
    (IsStr(cin) /\ cout # NoValue) =>
        LET s == cin.v IN
        IF Len(s) = 1 /\ s[1] <= 255 THEN cout = PyBytes(<<s[1]>>)
        ELSE IF Len(s) = 1 THEN cout = PyRaise("ValueError")
        ELSE IF s = str_caret_query THEN cout = PyBytes(<<127>>)
        ELSE IF s \in {str_caret_minus, str_undef}
            THEN cout = PyBytes(<<POSIX_VDISABLE>>)
        ELSE IF Len(s) = 2 /\ s[1] = 94
                /\ (IsAlpha(s[2]) \/ s[2] \in CaretChars)
            THEN cout = PyBytes(<<s[2] % 32>>)
        ELSE cout = PyNone

C10_Witness ==
    /\ cin = PyStr(<<1>>)
    /\ cout = PyBytes(<<1>>)

\* C11: for every byte, cc_bytes_to_str gives "undef" for the disabled
\* sentinel before any other rule, the character itself for 0x20..0x7E,
\* "^?" for 0x7F, "^" and the character with code byte + 0x40 for
\* 0x01..0x1F, and None for every other byte.
C11_DecodeAsStated ==
    (IsBytes(cin) /\ Len(cin.v) = 1 /\ cout # NoValue) =>
        LET byte == cin.v[1] IN
        IF byte = POSIX_VDISABLE THEN cout = PyStr(str_undef)
        ELSE IF byte \in 32..126 THEN cout = PyStr(<<byte>>)
        ELSE IF byte = 127 THEN cout = PyStr(str_caret_query)
        ELSE IF byte \in 1..31 THEN cout = PyStr(<<94, byte + 64>>)
        ELSE cout = PyNone

C11_Witness ==
    /\ cin = PyBytes(<<POSIX_VDISABLE>>)
    /\ cout = PyStr(str_undef)

\* the ASCII letters, and the upper-case form of an ASCII character
AsciiLetters == (65..90) \cup (97..122)
AsciiUpper(c) == IF c \in 97..122 THEN c - 32 ELSE c

Holds(i, name, value, part) ==
    /\ Get(obj[i], name) = value
    /\ RawPart(World(i), name) = <<part>>

\* C13: after raw() every input-mode and every local-mode boolean of the
\* capability set is false, opost and parenb are false, the character size
\* is cs8, MIN is 1 and TIME is 0, in the cache and in the raw buffers.
C13_RawPostcondition ==
    last.op = "raw" =>
        /\ last.res = "ok"
        /\ \A name \in DOMAIN _bool_d :
              (_bool_d[name].flag \in {"iflag", "lflag"}
                  \/ name \in {"opost", "parenb"})
              => Holds(last.inst, name, PyBool(FALSE), 0)
        /\ Holds(last.inst, "csize", PyStr(str_cs8), 48)
        /\ Holds(last.inst, "min", PyInt(1), 1)
        /\ Holds(last.inst, "time", PyInt(0), 0)

C13_Witness ==
    /\ last.op = "raw"
    /\ last.res = "ok"
    /\ fdterm = ParityTerm
    /\ nops = 1
    /\ Get(obj[1], "echo") = PyBool(FALSE)
    /\ Get(obj[1], "csize") = PyStr(str_cs8)

\* C14: evenp(True) leaves parenb true, parodd false and the character
\* size cs7; evenp(False) leaves parenb false and the character size cs8.
C14_EvenpPostcondition ==
    last.op = "evenp" =>
        /\ last.res = "ok"
        /\ IF Truthy(last.arg[1][2])
           THEN /\ Holds(last.inst, "parenb", PyBool(TRUE), 256)
                /\ Holds(last.inst, "parodd", PyBool(FALSE), 0)
                /\ Holds(last.inst, "csize", PyStr(str_cs7), 32)
           ELSE /\ Holds(last.inst, "parenb", PyBool(FALSE), 0)
                /\ Holds(last.inst, "csize", PyStr(str_cs8), 48)

C14_Witness ==
    /\ last.op = "evenp"
    /\ last.arg[1][2] = PyBool(TRUE)
    /\ last.res = "ok"
    /\ fdterm = BaseTerm
    /\ Get(obj[1], "csize") = PyStr(str_cs7)
    /\ Get(obj[1], "parodd") = PyBool(FALSE)

\* the calls that assign attributes
Setters == {"set", "set_many", "raw", "evenp", "oddp", "nl", "ek"}

\* the cached values and raw buffers of instance i are the same in a and b
SameState(a, b) ==
    /\ a.o.attrs = b.o.attrs
    /\ a.o.termios = b.o.termios
    /\ WinsizeOf(a) = WinsizeOf(b)

\* C15: save() without a path returns a deep copy: it has the original's
\* cached values and raw buffers, taking it changes nothing in the
\* original, and assignments made later to either of the two leave the
\* cached values and raw buffers of the other as they were.
C15_SnapshotIsDeepCopy ==
    [][/\ (~cloned /\ cloned')
            => /\ SameState([o |-> obj'[2], dw |-> default_winsize'], World(1))
               /\ obj'[1] = obj[1]
               /\ default_winsize' = default_winsize
       /\ (cloned /\ cloned' /\ nops' # nops /\ last'.op \in Setters)
            => SameState([o |-> obj'[3 - last'.inst], dw |-> default_winsize'],
                         World(3 - last'.inst))]_vars

C15_Witness ==
    /\ cloned
    /\ last.op = "set"
    /\ last.inst = 1
    /\ last.arg = <<<<"rows", PyInt(40)>>>>
    /\ last.res = "ok"
    /\ obj[1].ws = "default"
    /\ Get(obj[1], "rows") = PyInt(40)
    /\ Get(obj[2], "rows") = PyInt(50)
    /\ WinsizeOf(World(2)) = <<50, 80>>


----------------------------------------------------------------------------
(* tofd, openpty and forkpty *)

\* a step that is a call of tofd
TofdStep == last'.op = "tofd" /\ nops' # nops
\* the keyword arguments of the tofd call recorded in c
ArgOf(c, key) == (CHOOSE item \in {c.arg[k] : k \in 1..Len(c.arg)} :
                      item[1] = key)[2]
FullTofd(c) ==
    /\ c.op = "tofd" /\ c.res = "ok"
    /\ Truthy(ArgOf(c, "apply_termios")) /\ Truthy(ArgOf(c, "apply_winsize"))

\* C16: tofd leaves the instance as it was: whatever the descriptor, the
\* value of when, the two apply arguments and the outcome of the OS calls,
\* the raw lists, the cached values and the module's default window size
\* after the call are those before it; so two complete successful calls in
\* a row on two descriptors leave the two terminals with the same settings.
C16_TofdReadOnly ==
    [][/\ TofdStep => obj' = obj /\ default_winsize' = default_winsize
       /\ (TofdStep /\ FullTofd(last) /\ FullTofd(last')
           /\ ArgOf(last, "fd") # ArgOf(last', "fd"))
          => fdterm' = os'.pty]_vars

\* a call with TCSAFLUSH that wrote the attributes and then ended with an
\* exception
C16_Witness ==
    /\ last.op = "tofd" /\ last.res = "OverflowError"
    /\ ArgOf(last, "when") = PyInt(TCSAFLUSH)
    /\ Get(obj[1], "rows") = PyInt(70000)

\* the terminal behind the descriptor the tofd call recorded in c was given,
\* in terminals f (descriptor 0) and p (the pty slave)
Target(c, f, p) == IF ArgOf(c, "fd") = PyInt(STDIN_FILENO) THEN f ELSE p
\* the flag words, speeds and control characters of terminal term are those
\* instance o holds, a control character being stored as a byte
AttrsMatch(term, o) ==
    /\ term.iflag = o.termios.iflag /\ term.oflag = o.termios.oflag
    /\ term.cflag = o.termios.cflag /\ term.lflag = o.termios.lflag
    /\ term.ispeed = o.termios.ispeed /\ term.ospeed = o.termios.ospeed
    /\ \A slot \in CcSlots : term.cc[slot] = CcByte(o.termios.cc[slot])
AttrsOf(term) == [term EXCEPT !.rows = 0, !.cols = 0]
WindowOf(term) == <<term.rows, term.cols>>

\* C17 as stated: after every call of tofd the terminal's attributes are the
\* instance's if apply_termios is true and as they were if not, and the
\* terminal's window size is the instance's if apply_winsize is true and as
\* it was if not, each whatever the other argument is.
C17_PartsWrittenIndependently ==
    [][TofdStep =>
        LET before == Target(last', fdterm, os.pty)
            after == Target(last', fdterm', os'.pty)
            o == obj[last'.inst]
        IN /\ IF Truthy(ArgOf(last', "apply_termios"))
                  THEN AttrsMatch(after, o)
                  ELSE AttrsOf(after) = AttrsOf(before)
           /\ IF Truthy(ArgOf(last', "apply_winsize"))
                  THEN WindowOf(after) = WinsizeOf(World(last'.inst))
                  ELSE WindowOf(after) = WindowOf(before)]_vars

\* C17, amended: a part whose argument is false is never written; a call
\* that returns has written the attributes if apply_termios is true and the
\* window size if apply_winsize is true; a call that raises has left the
\* window size as it was, and has either left the attributes as they were
\* or, with both arguments true, written them before the window size was
\* refused.  The attributes are written first, so a failure to write them
\* keeps the window size from being written.
C17_PartsWrittenInOrder ==
    [][TofdStep =>
        LET before == Target(last', fdterm, os.pty)
            after == Target(last', fdterm', os'.pty)
            o == obj[last'.inst]
            apply_termios == Truthy(ArgOf(last', "apply_termios"))
            apply_winsize == Truthy(ArgOf(last', "apply_winsize"))
        IN /\ ~apply_termios => AttrsOf(after) = AttrsOf(before)
           /\ ~apply_winsize => WindowOf(after) = WindowOf(before)
           /\ last'.res = "ok" =>
                /\ apply_termios => AttrsMatch(after, o)
                /\ apply_winsize =>
                       WindowOf(after) = WinsizeOf(World(last'.inst))
           /\ last'.res # "ok" =>
                /\ WindowOf(after) = WindowOf(before)
                /\ \/ AttrsOf(after) = AttrsOf(before)
                   \/ apply_termios /\ apply_winsize /\ AttrsMatch(after, o)
                /\ apply_termios \/ apply_winsize]_vars

\* a call that wrote a changed window size and not the changed attributes,
\* or one that wrote the attributes and raised at the window size
C17_Witness ==
    /\ last.op = "tofd"
    /\ LET term == Target(last, fdterm, os.pty) IN
        \/ /\ last.res = "ok"
           /\ ~Truthy(ArgOf(last, "apply_termios"))
           /\ Truthy(ArgOf(last, "apply_winsize"))
           /\ WindowOf(term) = <<40, 80>>
        \/ /\ last.res = "OverflowError"
           /\ AttrsMatch(term, obj[1])
           /\ WindowOf(term) # WinsizeOf(World(1))
           /\ ArgOf(last, "fd") = PyInt(SlaveFd)

\* a step that is a call of openpty, and how the calling process left it
OpenptyStep == os.call.op = "none" /\ os'.call.op = "openpty"
Caller(k) == k.proc["parent"]
OsFailures == {"OSError", "termios.error"}

\* C18: a call of openpty either returns a master and a slave descriptor
\* that differ and are both open in the caller, with a non-empty slave path,
\* the slave terminal then having the instance's attributes if apply_termios
\* is true and its window size if apply_winsize is true, or ends with an
\* exception of the OS; and it ends with such an exception when no pty pair
\* was made.
C18_OpenptyResult ==
    [][OpenptyStep =>
        LET p == Caller(os')
            o == obj[os'.call.inst]
        IN /\ \/ /\ p.pc = "returned"
                 /\ p.ret.m # p.ret.s
                 /\ {p.ret.m, p.ret.s} \subseteq p.fds
                 /\ p.ret.sname # ""
                 /\ Truthy(os'.call.apply_termios) => AttrsMatch(os'.pty, o)
                 /\ Truthy(os'.call.apply_winsize) =>
                        WindowOf(os'.pty) = WinsizeOf(World(os'.call.inst))
              \/ p.pc = "raised" /\ p.res \in OsFailures
           /\ ~os'.made => p.pc = "raised" /\ p.res \in OsFailures]_vars

\* process p has returned from forkpty
Returned(p) == os.proc[p].alive /\ os.proc[p].pc = "returned"

\* C19: on the manual path of forkpty, a child that has returned has the
\* master closed and the slave as its controlling terminal, a parent that
\* has returned has the master open and the slave closed, no descriptor of
\* the pair is open in both once both have returned, and each process has
\* run one branch only: the child's exactly where the pid returned is 0.
C19_ManualPathOwnership ==
    os.path = "manual" =>
        /\ Returned("child") =>
             /\ MasterFd \notin os.proc["child"].fds
             /\ os.proc["child"].ctty = "slave"
             /\ os.proc["child"].stdin = "slave"
             /\ os.proc["child"].ran = {"child"}
             /\ os.proc["child"].ret.pid = child
        /\ Returned("parent") =>
             /\ MasterFd \in os.proc["parent"].fds
             /\ SlaveFd \notin os.proc["parent"].fds
             /\ os.proc["parent"].ctty # "slave"
             /\ os.proc["parent"].ran = {"parent"}
             /\ os.proc["parent"].ret.pid # child
             /\ os.proc["parent"].ret.m = MasterFd
        /\ (Returned("child") /\ Returned("parent")) =>
             os.proc["child"].fds \cap os.proc["parent"].fds = {}

\* both processes have returned from forkpty on the manual path
C19_Witness ==
    os.path = "manual" /\ Returned("child") /\ Returned("parent")

\* forkpty takes the branch that calls os.forkpty exactly on the platforms
\* that have os.forkpty
PathByPrimitive ==
    /\ os.path = "manual" => ~os.has_forkpty
    /\ os.path = "integrated" => os.has_forkpty

\* on the branch that calls os.forkpty: a child that has returned has called
\* tofd on its descriptor 0, the pty slave, which then has the attributes
\* and window size the child holds, as far as the arguments ask; the parent
\* has not called tofd and has its path from os.ptsname(m); the two paths
\* returned are the same
IntegratedPathOrder ==
    os.path = "integrated" =>
        /\ Returned("child") =>
             /\ "child" \in os.applied
             /\ os.proc["child"].stdin = "slave"
             /\ os.proc["child"].ctty = "slave"
             /\ Truthy(os.call.apply_termios) => AttrsMatch(os.pty, os.o.o)
             /\ Truthy(os.call.apply_winsize) =>
                    WindowOf(os.pty) = WinsizeOf(os.o)
             /\ os.proc["child"].ret.via = "ttyname"
        /\ "parent" \notin os.applied
        /\ Returned("parent") =>
             /\ os.proc["parent"].ret.via = "ptsname"
             /\ os.proc["parent"].ret.m = MasterFd
        /\ (Returned("child") /\ Returned("parent")) =>
             os.proc["child"].ret.sname = os.proc["parent"].ret.sname

\* C20: forkpty calls os.forkpty on a platform that has it, and only there;
\* on that branch the child has applied the instance to its controlling
\* terminal by the time it returns, the parent never applies it and takes
\* the slave path from the master, and the paths returned in the parent and
\* in the child are the same.
C20_IntegratedPath == PathByPrimitive /\ IntegratedPathOrder

----------------------------------------------------------------------------
(* Reading, loading and writing back *)

\* C21: Stty(fd=fd) succeeds on every terminal whose attributes and window
\* size the OS returns, whatever they are, and every available attribute
\* then has a value.
C21_FromFdSucceeds ==
    last.op = "fromfd" =>
        /\ last.res = "ok"
        /\ obj[last.inst].state = "live"
        /\ \A name \in _available : ~Raised(Get(obj[last.inst], name))

\* the value the document loaded by the call recorded in c has under key
Persisted(c, key) == DictGet(c.arg, key)

SetStep(names) ==
    /\ last'.op = "set" /\ nops' # nops /\ last'.res = "ok"
    /\ last'.arg[1][1] \in names

\* C23: a successful assignment to a symbolic-mask attribute leaves the
\* bits of its flag word outside the mask as they were and makes the bits
\* under the mask the new value, changes no other raw value, reads back as
\* the name of the sub-field now stored, and ends in the state that
\* assigning the raw value, and assigning its name, to the same starting
\* state end in.
C23_SymbolUpdate ==
    [][SetStep(DOMAIN _symbol_d) =>
        LET i == last'.inst
            name == last'.arg[1][1]
            value == last'.arg[1][2]
            x == _symbol_d[name]
            v == IF IsInt(value) THEN IntOf(value)
                 ELSE x.avail_inverse[value.v]
            word == obj[i].termios[x.flag]
            new == obj'[i].termios[x.flag]
            stored == BitAnd(new, x.mask)
        IN /\ BitClear(new, x.mask) = BitClear(word, x.mask)
           /\ stored = v
           /\ obj'[i].termios = [obj[i].termios EXCEPT ![x.flag] = new]
           /\ Get(obj'[i], name) = PyStr(x.avail[stored])
           /\ obj'[i] = Setattr(World(i), name, PyInt(stored)).o
           /\ obj'[i] = Setattr(World(i), name, PyStr(x.avail[stored])).o
           /\ default_winsize' = default_winsize]_vars

\* csize was set by raw value on a terminal with another character size
C23_Witness ==
    /\ last.op = "set" /\ last.res = "ok"
    /\ last.arg = <<<<"csize", PyInt(_symbol_d.csize.avail_inverse[str_cs7])>>>>
    /\ Get(obj[1], "csize") = PyStr(str_cs7)
    /\ BitAnd(fdterm.cflag, _symbol_d.csize.mask) # IntOf(last.arg[1][2])

\* instances a and b hold the same flag words and speeds and the same byte
\* in every control-character slot
SameRaw(a, b) ==
    /\ \A f \in {"iflag", "oflag", "cflag", "lflag", "ispeed", "ospeed"} :
           a.termios[f] = b.termios[f]
    /\ \A slot \in CcSlots :
           CcByte(a.termios.cc[slot]) = CcByte(b.termios.cc[slot])

\* C24: setting every attribute of an instance read from a descriptor to the
\* value an earlier get() returned for it, in either order and whatever was
\* assigned in between, succeeds for every attribute, and leaves every
\* cached value, the flag words, the speeds, the byte in every
\* control-character slot and the window size as they were at that get().
C24_WriteBackRestores ==
    last.op = "restore" =>
        /\ last.res = "ok"
        /\ get(obj[last.inst], NameOrder) = kept.items
        /\ SameRaw(obj[last.inst], kept.o)
        /\ WinsizeOf(World(last.inst)) = kept.winsize

\* the values were set back after a change, and MIN, read as a bytes
\* object, is now held as an integer
C24_Witness ==
    /\ last.op = "restore" /\ last.res = "ok" /\ nops > 0
    /\ IsBytes(kept.o.termios.cc[_noncanon_d["min"]])
    /\ obj[1].termios.cc[_noncanon_d["min"]]
           = PyInt(kept.o.termios.cc[_noncanon_d["min"]].v[1])
    /\ fdterm = InputBaudTerm

----------------------------------------------------------------------------
(* Frames, sharing and the pseudo-terminal calls under failure *)

\* the bits of the flag word, the speed, the byte of the slot or the
\* window-size entry that belong to name in instance o
OwnPart(o, dw, name) ==
    IF name \in DOMAIN _cc_d THEN CcByte(o.termios.cc[_cc_d[name]])
    ELSE IF name \in DOMAIN _noncanon_d
        THEN CcByte(o.termios.cc[NoncanonSlot(o, name)])
    ELSE RawPart([o |-> o, dw |-> dw], name)[1]

\* C25: a successful assignment to one attribute leaves, for every other
\* attribute, the value get returns and the raw bits or slot that belong to
\* it as they were before the call; MIN and TIME against the slots of the
\* control characters and the mask of cibaud against the other fields of its
\* flag word included.
C25_SetterFrame ==
    [][SetStep(_available) =>
        LET i == last'.inst
            name == last'.arg[1][1]
        IN \A other \in _available \ {name} :
            /\ Get(obj'[i], other) = Get(obj[i], other)
            /\ OwnPart(obj'[i], default_winsize', other)
                   = OwnPart(obj[i], default_winsize, other)]_vars

\* the same frame where MIN has a slot of its own
C25_FrameOnOwnSlot ==
    [][(SetStep(_available) /\ obj[1].vmin = _noncanon_d.min) =>
        LET i == last'.inst
            name == last'.arg[1][1]
        IN \A other \in _available \ {name} :
            /\ Get(obj'[i], other) = Get(obj[i], other)
            /\ OwnPart(obj'[i], default_winsize', other)
                   = OwnPart(obj[i], default_winsize, other)]_vars

\* C26: a call on one instance, an assignment to rows or cols or any other,
\* leaves every other instance's flag words, speeds, control characters,
\* window size and cached values as they were, however the two instances
\* were made.
C26_NoSharedStorage ==
    [][(last' # last /\ last'.op # "snapshot") =>
        \A j \in Inst \ {last'.inst} :
            obj[j].state = "live" =>
                /\ obj'[j] = obj[j]
                /\ WinsizeOf([o |-> obj'[j], dw |-> default_winsize'])
                       = WinsizeOf(World(j))]_vars

\* the same for the instances that keep a window-size list of their own:
\* those read from a descriptor and snapshots
C26_OwnListsNotShared ==
    [][(last' # last /\ last'.op # "snapshot") =>
        \A j \in Inst \ {last'.inst} :
            (obj[j].state = "live" /\ obj[j].ws = "own") =>
                /\ obj'[j] = obj[j]
                /\ WinsizeOf([o |-> obj'[j], dw |-> default_winsize'])
                       = WinsizeOf(World(j))]_vars

\* C27: a load of a complete document into a new instance ends with the
\* flag words, speeds, control-character bytes and window size that the
\* same load ends with under any other attributes of the controlling
\* terminal.
C27_LoadIgnoresTerminal ==
    [][(IsLoad(last'.op) /\ nops' # nops /\ last'.res = "ok"
            /\ last'.was = "new") =>
        LET i == last'.inst IN
        \A doc \in ExternalDocs \cup {file.doc} :
            JsonLoadDict(doc) = last'.arg =>
                \A t \in TtyTerminals :
                    LET r == load(World(i), t, doc) IN
                    /\ r.res = "ok"
                    /\ SameRaw(obj'[i], r.o)
                    /\ WinsizeOf([o |-> obj'[i], dw |-> default_winsize'])
                           = WinsizeOf(r)]_vars

\* the same for what get returns: the cached values
C27_LoadedValuesIgnoreTerminal ==
    [][(IsLoad(last'.op) /\ nops' # nops /\ last'.res = "ok"
            /\ last'.was = "new") =>
        LET i == last'.inst IN
        \A doc \in ExternalDocs \cup {file.doc} :
            JsonLoadDict(doc) = last'.arg =>
                \A t \in TtyTerminals :
                    LET r == load(World(i), t, doc) IN
                    /\ r.res = "ok"
                    /\ get(obj'[i], NameOrder) = get(r.o, NameOrder)
                    /\ WinsizeOf([o |-> obj'[i], dw |-> default_winsize'])
                           = WinsizeOf(r)]_vars

\* C28: when openpty or forkpty ends with an exception of the OS after the
\* pty pair was made, neither descriptor of the pair is open in the calling
\* process.
C28_NoLeakOnFailure ==
    (os.made /\ Caller(os).pc = "raised" /\ Caller(os).res \in OsFailures)
        => Caller(os).fds \cap {MasterFd, SlaveFd} = {}

\* the step in which forkpty returns in the parent
ParentReturns ==
    /\ os'.call.op = "forkpty"
    /\ Caller(os).pc # "returned"
    /\ Caller(os').pc = "returned"

\* the slave terminal of k carries what the call asked to apply of the
\* instance it was made on, as the instance was at the call
SettingsInPlace(k) ==
    /\ Truthy(k.call.apply_termios) => AttrsMatch(k.pty, k.o.o)
    /\ Truthy(k.call.apply_winsize) => WindowOf(k.pty) = WinsizeOf(k.o)

\* C29: when forkpty returns in the parent, on either path and however far
\* the child has run, the slave terminal has the instance's attributes if
\* apply_termios is true and its window size if apply_winsize is true.
C29_SettingsInPlaceOnReturn ==
    [][ParentReturns => SettingsInPlace(os')]_vars

\* the same on the path through openpty and os.fork, where the parent
\* writes the slave before the fork
C29_InPlaceOnManualPath ==
    [][(ParentReturns /\ os'.path = "manual") => SettingsInPlace(os')]_vars

============================================================================
